---- MODULE Spec2Model ----
(***************************************************************************)
(* A model of the event log engine of evttools (src/src/evt.c, the last    *)
(* revision in that file, lines 1163-2351), of its record codec and of the *)
(* stdio-backed FileIO it runs on.  The file is modelled byte by byte, the *)
(* header and the log object field by field, C integer arithmetic with its *)
(* width.                                                                  *)
(***************************************************************************)
EXTENDS Integers, Sequences, FiniteSets, TLC

(* ===== Bounds of the exploration ======================================= *)

\* Calls of evtAppendRecord in one behaviour, calls of evtReadRecord after
\* one rewind, and calls of evtOpen in one behaviour.
MaxAppends == 3
MaxReads == 2
MaxOpens == 1
MaxRingAppends == 4
MaxRows == 3

(* ===== File format constants (src/src/evt.h) =========================== *)

EVT_SIGNATURE == 1699505740
EVT_HEADER_LENGTH == 48
EVT_RECORD_MIN_LENGTH == 64
EVT_RECORD_HEADER_LENGTH == 56
EVT_EOF_LENGTH == 40
EVT_HEADER_DIRTY == 1
EVT_HEADER_WRAP == 2
EVT_HEADER_LOGFULL_WRITTEN == 4
SIZEOF_DWORD == 4

(* ===== C integers ====================================================== *)

\* Integers are evaluated in 32 bits.  A value of an unsigned C type
\* (uint32_t, size_t) is represented by the integer that has the same low 32
\* bits in two's complement: v itself below 2^31, v - 2^32 for a uint32_t
\* from 2^31 on, and v - 2^64 for a size_t within 2^31 of 2^64.  With this
\* representation + and - are the C operations (they wrap as in C), and a
\* negative representative stands for a value beyond every file offset of
\* the model.  Values of signed types (off_t, int) are themselves.

\* a < b for two unsigned values of the same type.
ULess(a, b) == IF (a < 0) = (b < 0) THEN a < b ELSE b < 0

\* u >= x and u > x for a uint32_t u that C converts to off_t, and an off_t x.
WideGe(u, x) == u < 0 \/ u >= x
WideGt(u, x) == u < 0 \/ u > x


(* ===== Bits of a flag word ============================================= *)

HasFlag(flags, bit) == (flags \div bit) % 2 = 1
SetFlag(flags, bit) == IF HasFlag(flags, bit) THEN flags ELSE flags + bit
ClearFlag(flags, bit) == IF HasFlag(flags, bit) THEN flags - bit ELSE flags

(* ===== Little endian conversions (evtWrite / evtRead) ================== *)

\* evtWrite, case 2 and case 4: the bytes of a WORD and of a DWORD.
WordLE(v) == << v % 256, (v \div 256) % 256 >>
DwordLE(v) ==
    << v % 256, (v \div 256) % 256, (v \div 65536) % 256, (v \div 16777216) % 256 >>

\* EVT_READ_WORD_LE and EVT_READ_DWORD_LE on the bytes b[i], b[i+1], ...
ReadWordLE(b, i) == b[i] + 256 * b[i + 1]
ReadDwordLE(b, i) ==
    b[i] + 256 * b[i + 1] + 65536 * b[i + 2]
    + 16777216 * (IF b[i + 3] >= 128 THEN b[i + 3] - 256 ELSE b[i + 3])

\* EVT_READ_DWORD_LE on a buffer of char, which is a signed type in the
\* build: a byte of 128 or more is sign-extended before it is shifted, so
\* it sets every bit of the byte above it.
ReadDwordLESigned(b, i) ==
    ReadDwordLE(<< b[i],
                   IF b[i] >= 128 THEN 255 ELSE b[i + 1],
                   IF b[i + 1] >= 128 THEN 255 ELSE b[i + 2],
                   IF b[i + 2] >= 128 THEN 255 ELSE b[i + 3] >>, 1)

Zeros(n) == [i \in 1..n |-> 0]


(* ===== FileIO on a stdio FILE (fileio.c) =============================== *)

\* A FileIO value is [file |-> the bytes of the file, pos |-> the position];
\* the byte at offset o is file[o + 1].

\* fileIOSeek with SEEK_SET: fseeko accepts any offset that is not negative.
\* (A negative pos stands for an offset from 2^31 on, where no file of the
\* model has bytes.)
FileIOSeek(io, offset) == [io EXCEPT !.pos = offset]

\* fwrite (ptr, size, 1, handle): a block of no bytes writes no member and
\* reports 0 members; a write past the end of the file extends the file,
\* a gap reads as zeros.
FileIOWrite(io, bytes) ==
    IF Len(bytes) = 0
    THEN [ok |-> FALSE, io |-> io]
    ELSE LET n == Len(bytes)
             newLen == IF io.pos + n > Len(io.file) THEN io.pos + n ELSE Len(io.file)
         IN [ok |-> TRUE,
             io |-> [file |-> [i \in 1..newLen |->
                                 IF i > io.pos /\ i <= io.pos + n THEN bytes[i - io.pos]
                                 ELSE IF i <= Len(io.file) THEN io.file[i] ELSE 0],
                     pos  |-> io.pos + n]]

\* fread (ptr, size, 1, handle): succeeds only if the whole block is there;
\* a short read consumes what is left of the file.
FileIORead(io, n) ==
    IF n > 0 /\ io.pos >= 0 /\ io.pos + n <= Len(io.file)
    THEN [ok |-> TRUE, data |-> SubSeq(io.file, io.pos + 1, io.pos + n),
          io |-> [io EXCEPT !.pos = io.pos + n]]
    ELSE [ok |-> FALSE, data |-> << >>,
          io |-> [io EXCEPT !.pos = IF n > 0 /\ io.pos < Len(io.file)
                                    THEN Len(io.file) ELSE io.pos]]

\* ftruncate: the file keeps its first bytes and is extended with zeros.
FileIOTruncate(io, size) ==
    [io EXCEPT !.file = [i \in 1..size |-> IF i <= Len(io.file) THEN io.file[i] ELSE 0]]

(* ===== The field tables ================================================ *)

\* evtWrite over evtHeaderTable: twelve DWORDs.
evtHeaderTable(h) ==
    DwordLE(h.headerSize) \o DwordLE(h.signature) \o DwordLE(h.majorVersion)
    \o DwordLE(h.minorVersion) \o DwordLE(h.startOffset) \o DwordLE(h.endOffset)
    \o DwordLE(h.currentRecordNumber) \o DwordLE(h.oldestRecordNumber)
    \o DwordLE(h.maxSize) \o DwordLE(h.flags) \o DwordLE(h.retention)
    \o DwordLE(h.endHeaderSize)

\* evtRead over evtHeaderTable.
ReadHeaderTable(b) ==
    [headerSize |-> ReadDwordLE(b, 1), signature |-> ReadDwordLE(b, 5),
     majorVersion |-> ReadDwordLE(b, 9), minorVersion |-> ReadDwordLE(b, 13),
     startOffset |-> ReadDwordLE(b, 17), endOffset |-> ReadDwordLE(b, 21),
     currentRecordNumber |-> ReadDwordLE(b, 25),
     oldestRecordNumber |-> ReadDwordLE(b, 29),
     maxSize |-> ReadDwordLE(b, 33), flags |-> ReadDwordLE(b, 37),
     retention |-> ReadDwordLE(b, 41), endHeaderSize |-> ReadDwordLE(b, 45)]

\* evtWrite over evtRecordTable: six DWORDs, four WORDs, six DWORDs.
evtRecordTable(h) ==
    DwordLE(h.length) \o DwordLE(h.reserved) \o DwordLE(h.recordNumber)
    \o DwordLE(h.timeGenerated) \o DwordLE(h.timeWritten) \o DwordLE(h.eventID)
    \o WordLE(h.eventType) \o WordLE(h.numStrings) \o WordLE(h.eventCategory)
    \o WordLE(h.reservedFlags) \o DwordLE(h.closingRecordNumber)
    \o DwordLE(h.stringOffset) \o DwordLE(h.userSidLength)
    \o DwordLE(h.userSidOffset) \o DwordLE(h.dataLength) \o DwordLE(h.dataOffset)

\* evtRead over evtRecordTable, all sixteen items.
ReadRecordTable(b) ==
    [length |-> ReadDwordLE(b, 1), reserved |-> ReadDwordLE(b, 5),
     recordNumber |-> ReadDwordLE(b, 9), timeGenerated |-> ReadDwordLE(b, 13),
     timeWritten |-> ReadDwordLE(b, 17), eventID |-> ReadDwordLE(b, 21),
     eventType |-> ReadWordLE(b, 25), numStrings |-> ReadWordLE(b, 27),
     eventCategory |-> ReadWordLE(b, 29), reservedFlags |-> ReadWordLE(b, 31),
     closingRecordNumber |-> ReadDwordLE(b, 33), stringOffset |-> ReadDwordLE(b, 37),
     userSidLength |-> ReadDwordLE(b, 41), userSidOffset |-> ReadDwordLE(b, 45),
     dataLength |-> ReadDwordLE(b, 49), dataOffset |-> ReadDwordLE(b, 53)]

\* evtWrite over evtEOFTable: ten DWORDs.
evtEOFTable(e) ==
    DwordLE(e.recordSizeBeginning) \o DwordLE(e.one) \o DwordLE(e.two)
    \o DwordLE(e.three) \o DwordLE(e.four) \o DwordLE(e.beginRecord)
    \o DwordLE(e.endRecord) \o DwordLE(e.currentRecordNumber)
    \o DwordLE(e.oldestRecordNumber) \o DwordLE(e.recordSizeEnd)

\* evtRead over evtEOFTable.
ReadEOFTable(b) ==
    [recordSizeBeginning |-> ReadDwordLE(b, 1), one |-> ReadDwordLE(b, 5),
     two |-> ReadDwordLE(b, 9), three |-> ReadDwordLE(b, 13),
     four |-> ReadDwordLE(b, 17), beginRecord |-> ReadDwordLE(b, 21),
     endRecord |-> ReadDwordLE(b, 25), currentRecordNumber |-> ReadDwordLE(b, 29),
     oldestRecordNumber |-> ReadDwordLE(b, 33), recordSizeEnd |-> ReadDwordLE(b, 37)]

\* evtWrite: every item is a block of 2 or 4 bytes, so no fwrite fails.
evtWrite(io, bytes) == FileIOWrite(io, bytes).io


(* ===== UTF-8 <-> UTF-16LE (widechar.c, iconv) ========================== *)

\* A C string is the sequence of its bytes without the terminating NUL.

IsCont(c) == c >= 128 /\ c <= 191

\* iconv from "UTF-8": the code points of a byte sequence, or a failure on
\* a malformed, overlong or surrogate sequence.
RECURSIVE Utf8Decode(_, _, _)
Utf8Decode(b, i, acc) ==
    IF i > Len(b) THEN [ok |-> TRUE, cps |-> acc]
    ELSE LET c == b[i] IN
      IF c < 128 THEN Utf8Decode(b, i + 1, Append(acc, c))
      ELSE IF c >= 194 /\ c <= 223 /\ i + 1 <= Len(b) /\ IsCont(b[i + 1])
      THEN Utf8Decode(b, i + 2, Append(acc, (c - 192) * 64 + (b[i + 1] - 128)))
      ELSE IF c >= 224 /\ c <= 239 /\ i + 2 <= Len(b)
              /\ IsCont(b[i + 1]) /\ IsCont(b[i + 2])
      THEN LET cp == (c - 224) * 4096 + (b[i + 1] - 128) * 64 + (b[i + 2] - 128)
           IN IF cp < 2048 \/ (cp >= 55296 /\ cp <= 57343)
              THEN [ok |-> FALSE, cps |-> acc]
              ELSE Utf8Decode(b, i + 3, Append(acc, cp))
      ELSE IF c >= 240 /\ c <= 244 /\ i + 3 <= Len(b)
              /\ IsCont(b[i + 1]) /\ IsCont(b[i + 2]) /\ IsCont(b[i + 3])
      THEN LET cp == (c - 240) * 262144 + (b[i + 1] - 128) * 4096
                     + (b[i + 2] - 128) * 64 + (b[i + 3] - 128)
           IN IF cp < 65536 \/ cp > 1114111
              THEN [ok |-> FALSE, cps |-> acc]
              ELSE Utf8Decode(b, i + 4, Append(acc, cp))
      ELSE [ok |-> FALSE, cps |-> acc]

\* iconv to "UTF-8".
Utf8EncodeCp(cp) ==
    IF cp < 128 THEN << cp >>
    ELSE IF cp < 2048 THEN << 192 + (cp \div 64), 128 + (cp % 64) >>
    ELSE IF cp < 65536
    THEN << 224 + (cp \div 4096), 128 + ((cp \div 64) % 64), 128 + (cp % 64) >>
    ELSE << 240 + (cp \div 262144), 128 + ((cp \div 4096) % 64),
            128 + ((cp \div 64) % 64), 128 + (cp % 64) >>

RECURSIVE Utf8Encode(_)
Utf8Encode(cps) ==
    IF cps = << >> THEN << >> ELSE Utf8EncodeCp(Head(cps)) \o Utf8Encode(Tail(cps))

\* iconv to "UTF-16LE": a surrogate pair for a code point beyond the BMP.
Utf16EncodeCp(cp) ==
    IF cp < 65536 THEN WordLE(cp)
    ELSE WordLE(55296 + ((cp - 65536) \div 1024)) \o WordLE(56320 + ((cp - 65536) % 1024))

RECURSIVE Utf16Encode(_)
Utf16Encode(cps) ==
    IF cps = << >> THEN << >> ELSE Utf16EncodeCp(Head(cps)) \o Utf16Encode(Tail(cps))

\* iconv from "UTF-16LE": fails on a surrogate that has no partner.
RECURSIVE Utf16Decode(_, _, _)
Utf16Decode(b, i, acc) ==
    IF i + 1 > Len(b) THEN [ok |-> i > Len(b), cps |-> acc]
    ELSE LET u == ReadWordLE(b, i) IN
      IF u < 55296 \/ u > 57343 THEN Utf16Decode(b, i + 2, Append(acc, u))
      ELSE IF u <= 56319 /\ i + 3 <= Len(b)
              /\ ReadWordLE(b, i + 2) >= 56320 /\ ReadWordLE(b, i + 2) <= 57343
      THEN Utf16Decode(b, i + 4,
               Append(acc, 65536 + (u - 55296) * 1024 + (ReadWordLE(b, i + 2) - 56320)))
      ELSE [ok |-> FALSE, cps |-> acc]

\* encodeMBString: the string with its NUL goes through iconv; the result is
\* the number of bytes produced (0 on failure) and the bytes.
encodeMBString(in) ==
    LET d == Utf8Decode(in, 1, << >>) IN
    IF d.ok THEN LET out == Utf16Encode(d.cps) \o << 0, 0 >>
                 IN [length |-> Len(out), out |-> out]
    ELSE [length |-> 0, out |-> << >>]

\* The loop of decodeWideString: the number of bytes up to and including the
\* first zero code unit of buf from byte offset off on, 0 when a unit that
\* is not zero ends beyond maxLength.  Reading a unit that lies outside the
\* buffer is reported in oob; examined is the number of bytes from off on
\* that the loop has read.
RECURSIVE WideStringScan(_, _, _, _)
WideStringScan(buf, off, maxLength, k) ==
    IF off + 2 * k < 0 \/ off + 2 * k + 2 > Len(buf)
    THEN [inLen |-> 0, oob |-> TRUE, examined |-> 2 * k + 2]
    ELSE IF ReadWordLE(buf, off + 2 * k + 1) = 0
    THEN [inLen |-> 2 * k + 2, oob |-> FALSE, examined |-> 2 * k + 2]
    ELSE IF 2 * k + 2 > maxLength
    THEN [inLen |-> 0, oob |-> FALSE, examined |-> 2 * k + 2]
    ELSE WideStringScan(buf, off, maxLength, k + 1)

\* decodeWideString (in = buf + off, maxLength, out).
decodeWideString(buf, off, maxLength) ==
    IF maxLength <= 0 THEN [length |-> 0, out |-> << >>, oob |-> FALSE, examined |-> 0]
    ELSE LET sc == WideStringScan(buf, off, maxLength, 0) IN
      IF sc.inLen = 0
      THEN [length |-> 0, out |-> << >>, oob |-> sc.oob, examined |-> sc.examined]
      ELSE LET d == Utf16Decode(SubSeq(buf, off + 1, off + sc.inLen - 2), 1, << >>) IN
        IF d.ok THEN [length |-> sc.inLen, out |-> Utf8Encode(d.cps), oob |-> FALSE,
                      examined |-> sc.examined]
        ELSE [length |-> 0, out |-> << >>, oob |-> FALSE, examined |-> sc.examined]


(* ===== Byte buffer (datastruct.c) ====================================== *)

\* The null pointer, where a string or a block of bytes is expected.
NULL == << -1 >>

BUFFER_BLOCK_SIZE == 128

\* BUFFER_INITIALIZER: no storage yet.
BUFFER_INITIALIZER ==
    [alloc |-> FALSE, data |-> << >>, cursor |-> 0, used |-> 0, allocated |-> 0]

\* memcpy of bytes to offset at of a block that holds Len(data) bytes.
WriteAt(data, at, bytes) ==
    LET newLen == IF at + Len(bytes) > Len(data) THEN at + Len(bytes) ELSE Len(data)
    IN [i \in 1..newLen |-> IF i > at /\ i <= at + Len(bytes) THEN bytes[i - at]
                            ELSE IF i <= Len(data) THEN data[i] ELSE 0]

\* allocated <<= 1 until the block holds need bytes.
RECURSIVE BufferGrow(_, _)
BufferGrow(allocated, need) ==
    IF allocated < need THEN BufferGrow(2 * allocated, need) ELSE allocated

\* A variant of bufferAppend that pastes at the cursor whatever the
\* alignment asked for.
bufferAppendUnaligned(buf, bytes, align) ==
    LET cursor == IF ~buf.alloc THEN 0 ELSE buf.cursor
        used0  == IF buf.alloc THEN buf.used ELSE 0
        end    == cursor + Len(bytes)
    IN [buf |-> [alloc |-> TRUE,
                 data |-> WriteAt(IF buf.alloc THEN buf.data ELSE << >>, cursor, bytes),
                 cursor |-> end, used |-> IF end > used0 THEN end ELSE used0,
                 allocated |-> IF ~buf.alloc
                               THEN (Len(bytes) \div BUFFER_BLOCK_SIZE + 1) * BUFFER_BLOCK_SIZE
                               ELSE BufferGrow(buf.allocated, end)],
        offset |-> cursor,
        overrun |-> FALSE]

\* bufferAppend (buf, data, length, align): the buffer afterwards and the
\* offset at which the data have been pasted.  The first append allocates
\* and starts at offset 0; a later one pads the cursor up to the alignment
\* and only then looks at the size of the block: overrun tells that padding
\* was written outside it, at the offsets allocated .. cursor - 1.
bufferAppend(buf, bytes, align) ==
    LET cursor == IF ~buf.alloc THEN 0
                  ELSE IF align > 1
                  THEN ((buf.cursor + align - 1) \div align) * align
                  ELSE buf.cursor
        padded == IF buf.alloc /\ cursor > buf.cursor
                  THEN WriteAt(buf.data, buf.cursor, Zeros(cursor - buf.cursor))
                  ELSE IF buf.alloc THEN buf.data ELSE << >>
        used0  == IF buf.alloc THEN buf.used ELSE 0
        end    == cursor + Len(bytes)
    IN [buf |-> [alloc |-> TRUE, data |-> WriteAt(padded, cursor, bytes),
                 cursor |-> end, used |-> IF end > used0 THEN end ELSE used0,
                 allocated |-> IF ~buf.alloc
                               THEN (Len(bytes) \div BUFFER_BLOCK_SIZE + 1) * BUFFER_BLOCK_SIZE
                               ELSE BufferGrow(buf.allocated, end)],
        offset |-> cursor,
        overrun |-> buf.alloc /\ cursor > buf.allocated]

(* ===== SID codec (sid.c) =============================================== *)

IsDigit(c) == c >= 48 /\ c <= 57
CharAt(s, i) == IF i >= 1 /\ i <= Len(s) THEN s[i] ELSE 0

\* sizeof (long) and sizeof (long long) of the build.
SIZEOF_LONG == 8

\* b * 10 + carry on the big endian bytes b: the low Len(b) bytes and
\* what does not fit in them.
RECURSIVE MulAdd10(_, _)
MulAdd10(b, carry) ==
    IF b = << >> THEN [bytes |-> << >>, carry |-> carry]
    ELSE LET v == b[Len(b)] * 10 + carry
             Rest(r) == [bytes |-> Append(r.bytes, v % 256), carry |-> r.carry]
         IN Rest(MulAdd10(SubSeq(b, 1, Len(b) - 1), v \div 256))

\* 0 - b on big endian bytes (two's complement).
RECURSIVE Negate(_, _)
Negate(b, borrow) ==
    IF b = << >> THEN << >>
    ELSE LET v == 256 - b[Len(b)] - borrow
         IN Append(Negate(SubSeq(b, 1, Len(b) - 1), IF v = 256 THEN 0 ELSE 1), v % 256)

\* The digit loop of strtol: the magnitude as SIZEOF_LONG big endian bytes,
\* whether it went beyond them, and the first character that is no digit.
RECURSIVE Digits(_, _, _, _)
Digits(s, i, acc, over) ==
    IF IsDigit(CharAt(s, i))
    THEN LET More(m) == Digits(s, i + 1, m.bytes, over \/ m.carry > 0)
         IN More(MulAdd10(acc, s[i] - 48))
    ELSE [mag |-> acc, over |-> over, cur |-> i]

IsSpace(c) == c = 32 \/ (c >= 9 /\ c <= 13)

RECURSIVE SkipSpace(_, _)
SkipSpace(s, i) == IF IsSpace(CharAt(s, i)) THEN SkipSpace(s, i + 1) ELSE i

LONG_MAX == << 127 >> \o [k \in 1..(SIZEOF_LONG - 1) |-> 255]
LONG_MIN == << 128 >> \o Zeros(SIZEOF_LONG - 1)

\* strtol (s + i - 1, &cur, 10) and strtoll: white space, an optional sign
\* and decimal digits; with no digit nothing is converted, the value is 0
\* and cur is the start.  The value is given by its SIZEOF_LONG bytes, big
\* endian, two's complement; a number out of range gives LONG_MAX or
\* LONG_MIN.
strtol(s, i) ==
    LET start  == SkipSpace(s, i)
        signed == CharAt(s, start) \in {43, 45}
        first  == IF signed THEN start + 1 ELSE start
        neg    == CharAt(s, start) = 45
        Value(d) ==
            IF d.cur = first THEN [bytes |-> Zeros(SIZEOF_LONG), cur |-> i]
            ELSE IF ~neg
            THEN [bytes |-> IF d.over \/ d.mag[1] >= 128 THEN LONG_MAX ELSE d.mag,
                  cur |-> d.cur]
            ELSE [bytes |-> IF d.over \/ (d.mag[1] >= 128 /\ d.mag # LONG_MIN)
                            THEN LONG_MIN ELSE Negate(d.mag, 0),
                  cur |-> d.cur]
    IN Value(Digits(s, first, Zeros(SIZEOF_LONG), FALSE))

\* num < 0 || num > UINT8_MAX on the bytes of a long.
OutOfUint8(b) == \E k \in 1..(SIZEOF_LONG - 1) : b[k] # 0

\* Division by ten of the number whose big endian bytes are b: the bytes of
\* the quotient and the remainder.
RECURSIVE DivMod10(_, _, _, _)
DivMod10(b, i, q, r) ==
    IF i > Len(b) THEN [quot |-> q, rem |-> r]
    ELSE DivMod10(b, i + 1, Append(q, (r * 256 + b[i]) \div 10), (r * 256 + b[i]) % 10)

\* printf ("%u"), ("%llu"), ("%lu"): the decimal digits of the unsigned
\* number whose big endian bytes are b.
RECURSIVE Decimal(_)
Decimal(b) ==
    LET d == DivMod10(b, 1, << >>, 0) IN
    IF \A i \in 1..Len(d.quot) : d.quot[i] = 0 THEN << 48 + d.rem >>
    ELSE Decimal(d.quot) \o << 48 + d.rem >>

\* The loop of sidToBinary over the sub-authorities, from the '-' at cur:
\* sa is the long converted to uint32_t, stored as the host stores it.
RECURSIVE SidSubAuthorities(_, _, _, _)
SidSubAuthorities(sid, cur, cnt, acc) ==
    IF CharAt(sid, cur) = 0 THEN [ok |-> TRUE, cnt |-> cnt, bytes |-> acc]
    ELSE LET More(sa) ==
                 IF CharAt(sid, sa.cur) # 0 /\ CharAt(sid, sa.cur) # 45
                 THEN [ok |-> FALSE, cnt |-> cnt, bytes |-> acc]
                 ELSE SidSubAuthorities(sid, sa.cur, (cnt + 1) % 256,
                          acc \o << sa.bytes[SIZEOF_LONG], sa.bytes[SIZEOF_LONG - 1],
                                    sa.bytes[SIZEOF_LONG - 2], sa.bytes[SIZEOF_LONG - 3] >>)
         IN More(strtol(sid, cur + 1))

\* sidToBinary: the binary SID of a string SID, or a failure.
sidToBinary(sid) ==
    LET Fail == [ok |-> FALSE, sid |-> << >>]
        Subs(num, auth, subs) ==
            IF subs.ok
            THEN [ok |-> TRUE,
                  sid |-> << num.bytes[SIZEOF_LONG], subs.cnt >>
                          \o SubSeq(auth.bytes, SIZEOF_LONG - 5, SIZEOF_LONG)
                          \o subs.bytes]
            ELSE Fail
        Auth(num, auth) ==
            IF CharAt(sid, auth.cur) # 0 /\ CharAt(sid, auth.cur) # 45 THEN Fail
            ELSE Subs(num, auth, SidSubAuthorities(sid, auth.cur, 0, << >>))
        Rev(num) ==
            IF CharAt(sid, num.cur) # 45 \/ OutOfUint8(num.bytes) THEN Fail
            ELSE Auth(num, strtol(sid, num.cur + 1))
    IN IF CharAt(sid, 1) # 83 \/ CharAt(sid, 2) # 45 THEN Fail
       ELSE Rev(strtol(sid, 3))

RECURSIVE SidSubAuthorityText(_, _, _)
SidSubAuthorityText(b, i, cnt) ==
    IF i >= cnt THEN << >>
    ELSE << 45 >>
         \o Decimal(<< b[12 + 4 * i], b[11 + 4 * i], b[10 + 4 * i], b[9 + 4 * i] >>)
         \o SidSubAuthorityText(b, i + 1, cnt)

\* A sidToString that prints the low 32 bits of the identifier authority.
sidToStringAuthority32(b) ==
    IF Len(b) < 8 THEN [ok |-> FALSE, str |-> << >>]
    ELSE IF Len(b) < 8 + b[2] * 4 THEN [ok |-> FALSE, str |-> << >>]
    ELSE [ok |-> TRUE,
          str |-> << 83, 45 >> \o Decimal(<< b[1] >>) \o << 45 >>
                  \o Decimal(SubSeq(b, 5, 8))
                  \o SidSubAuthorityText(b, 0, b[2])]

\* sidToString (sid, length) on the length bytes b: the string SID, or a
\* failure when the block is shorter than the SID it announces.
sidToString(b) ==
    IF Len(b) < 8 THEN [ok |-> FALSE, str |-> << >>]
    ELSE IF Len(b) < 8 + b[2] * 4 THEN [ok |-> FALSE, str |-> << >>]
    ELSE [ok |-> TRUE,
          str |-> << 83, 45 >> \o Decimal(<< b[1] >>) \o << 45 >>
                  \o Decimal(SubSeq(b, 3, 8))
                  \o SidSubAuthorityText(b, 0, b[2])]


(* ===== Record codec (evt.c, "Data manipulation") ======================= *)

\* A time_t of the build has SIZEOF_LONG bytes, given big endian in two's
\* complement.  TimeT (n) is the time_t of a number of seconds 0 .. 2^31 - 1.
TimeT(n) ==
    Zeros(SIZEOF_LONG - 4)
    \o << (n \div 16777216) % 256, (n \div 65536) % 256, (n \div 256) % 256, n % 256 >>

\* A clamping conversion: 0 below zero and 2^32 - 1 above 2^32 - 1.
TimeToUint32Clamped(t) ==
    IF t[1] >= 128 THEN 0
    ELSE IF \E k \in 1..(SIZEOF_LONG - 4) : t[k] # 0 THEN 0 - 1
    ELSE (IF t[SIZEOF_LONG - 3] >= 128 THEN t[SIZEOF_LONG - 3] - 256
          ELSE t[SIZEOF_LONG - 3]) * 16777216
         + t[SIZEOF_LONG - 2] * 65536 + t[SIZEOF_LONG - 1] * 256 + t[SIZEOF_LONG]

\* output->header.timeGenerated = input->timeGenerated: the conversion of a
\* time_t to uint32_t keeps the low 32 bits.
TimeToUint32(t) ==
    (IF t[SIZEOF_LONG - 3] >= 128 THEN t[SIZEOF_LONG - 3] - 256
     ELSE t[SIZEOF_LONG - 3]) * 16777216
    + t[SIZEOF_LONG - 2] * 65536 + t[SIZEOF_LONG - 1] * 256 + t[SIZEOF_LONG]

\* (time_t) hdr->timeGenerated: the uint32_t extended with zero bits.
Uint32ToTime(v) == TimeT(v)

\* The header of a record that the caller of evtEncodeRecordData has reset
\* (csv2evt.c, resetRecord): zeros, and the signature in reserved.
ResetRecordHeader ==
    [length |-> 0, reserved |-> EVT_SIGNATURE, recordNumber |-> 0,
     timeGenerated |-> 0, timeWritten |-> 0, eventID |-> 0, eventType |-> 0,
     numStrings |-> 0, eventCategory |-> 0, reservedFlags |-> 0,
     closingRecordNumber |-> 0, stringOffset |-> 0, userSidLength |-> 0,
     userSidOffset |-> 0, dataLength |-> 0, dataOffset |-> 0]

\* The loop of evtEncodeRecordData over input->strings.
RECURSIVE EncodeStrings(_, _, _, _)
EncodeStrings(strings, i, buf, failed) ==
    IF i > Len(strings) THEN [buf |-> buf, failed |-> failed]
    ELSE LET w == encodeMBString(strings[i]) IN
      IF w.length # 0
      THEN EncodeStrings(strings, i + 1, bufferAppend(buf, w.out, 0).buf, failed)
      ELSE EncodeStrings(strings, i + 1, buf, TRUE)

\* evtEncodeRecordData (input, output, errors); header is output->header as
\* the caller left it.  The result is the return value, the error bits and
\* the output record.
evtEncodeRecordData(input, header) ==
    LET src  == encodeMBString(input.sourceName)
        b1   == IF src.length # 0 THEN bufferAppend(BUFFER_INITIALIZER, src.out, 0).buf
                ELSE BUFFER_INITIALIZER
        comp == encodeMBString(input.computerName)
        b2   == IF comp.length # 0 THEN bufferAppend(b1, comp.out, 0).buf ELSE b1
        sid  == IF input.userSid = NULL THEN [ok |-> FALSE, sid |-> << >>]
                ELSE sidToBinary(input.userSid)
        sidA == bufferAppend(b2, sid.sid, SIZEOF_DWORD)
        b3   == IF input.userSid # NULL /\ sid.ok THEN sidA.buf ELSE b2
        h1   == [header EXCEPT
                   !.timeGenerated = TimeToUint32(input.timeGenerated),
                   !.timeWritten = TimeToUint32(input.timeWritten),
                   !.userSidLength = IF input.userSid = NULL THEN 0
                                     ELSE IF sid.ok THEN Len(sid.sid) ELSE @,
                   !.userSidOffset = IF input.userSid = NULL THEN 0
                                     ELSE IF sid.ok
                                     THEN EVT_RECORD_HEADER_LENGTH + sidA.offset
                                     ELSE @,
                   !.stringOffset = EVT_RECORD_HEADER_LENGTH + b3.used,
                   !.numStrings = input.numStrings % 65536]
        strs == EncodeStrings(input.strings, 1, b3, FALSE)
        errs == (IF src.length = 0 THEN {"EVT_ENCODE_SOURCE_NAME_FAILED"} ELSE {})
                \cup (IF comp.length = 0 THEN {"EVT_ENCODE_COMPUTER_NAME_FAILED"} ELSE {})
                \cup (IF input.userSid # NULL /\ ~sid.ok
                      THEN {"EVT_ENCODE_SID_FAILED"} ELSE {})
                \cup (IF strs.failed THEN {"EVT_ENCODE_STRINGS_FAILED"} ELSE {})
        dat  == bufferAppend(strs.buf, input.data, 0)
        length == ((EVT_RECORD_HEADER_LENGTH + dat.buf.used + 4 + SIZEOF_DWORD - 1)
                   \div SIZEOF_DWORD) * SIZEOF_DWORD
        b5   == bufferAppend(dat.buf, DwordLE(length), SIZEOF_DWORD).buf
    IN IF errs # {}
       THEN [err |-> "EVT_ERROR", errors |-> errs,
             output |-> [header |-> h1, dataLength |-> 0, data |-> NULL]]
       ELSE [err |-> "EVT_OK", errors |-> {},
             output |-> [header |-> [h1 EXCEPT
                                       !.dataLength = Len(input.data),
                                       !.dataOffset = EVT_RECORD_HEADER_LENGTH
                                                      + dat.offset,
                                       !.length = length],
                         dataLength |-> b5.used, data |-> b5.data]]

\* The bytes buf[off .. off + n - 1] (offsets from 0), and whether any of
\* them lies outside the block.
Slice(buf, off, n) ==
    IF off < 0 \/ off + n > Len(buf) THEN [bytes |-> << >>, oob |-> n > 0]
    ELSE [bytes |-> SubSeq(buf, off + 1, off + n), oob |-> FALSE]

\* The loop of evtDecodeRecordData over the message strings.
RECURSIVE DecodeStrings(_, _, _, _, _)
DecodeStrings(input, offset, todo, acc, oob) ==
    IF todo = 0 THEN [strings |-> acc, failed |-> FALSE, oob |-> oob]
    ELSE LET d == decodeWideString(input.data, offset, input.dataLength - offset) IN
      IF d.length = 0 THEN [strings |-> acc, failed |-> TRUE, oob |-> oob \/ d.oob]
      ELSE DecodeStrings(input, offset + d.length, todo - 1, Append(acc, d.out), oob)

\* The right-hand side of both overflow checks of evtDecodeRecordData, an
\* expression of type size_t: it wraps when dataLength is below 60.
DecodeLimit(input) ==
    input.dataLength - EVT_RECORD_HEADER_LENGTH - 4

\* sum > limit, for a uint32_t sum that C converts to size_t.
Overflows(sum, limit) ==
    IF limit < 0 THEN FALSE ELSE sum < 0 \/ sum > limit

\* evtDecodeRecordData (input, output, errors).  untouched names the fields
\* of *output that the call has not stored: they keep what the caller's
\* memory held, and output shows NULL for them.
evtDecodeRecordData(input) ==
    IF input.data = NULL
       \/ input.dataLength < EVT_RECORD_MIN_LENGTH - EVT_RECORD_HEADER_LENGTH
    THEN [err |-> "EVT_ERROR", errors |-> {"EVT_DECODE_INVALID"}, oob |-> FALSE,
          output |-> [timeGenerated |-> TimeT(0), timeWritten |-> TimeT(0), numStrings |-> 0,
                      strings |-> << >>, userSid |-> NULL, sourceName |-> NULL,
                      computerName |-> NULL, dataLength |-> 0, data |-> NULL],
          untouched |-> {}]
    ELSE
    LET hdr  == input.header
        src  == decodeWideString(input.data, 0, input.dataLength)
        comp == IF src.length # 0
                THEN decodeWideString(input.data, src.length,
                                      input.dataLength - src.length)
                ELSE [length |-> 0, out |-> << >>, oob |-> FALSE]
        strs == IF hdr.numStrings # 0
                THEN DecodeStrings(input, hdr.stringOffset - EVT_RECORD_HEADER_LENGTH,
                                   hdr.numStrings, << >>, FALSE)
                ELSE [strings |-> << >>, failed |-> FALSE, oob |-> FALSE]
        sidOver == Overflows(hdr.userSidOffset + hdr.userSidLength, DecodeLimit(input))
        sidBin  == Slice(input.data, hdr.userSidOffset - EVT_RECORD_HEADER_LENGTH,
                         hdr.userSidLength)
        sid     == IF ~sidOver /\ hdr.userSidLength # 0 /\ ~sidBin.oob
                   THEN sidToString(sidBin.bytes) ELSE [ok |-> FALSE, str |-> << >>]
        dataOver == Overflows(hdr.dataOffset + hdr.dataLength, DecodeLimit(input))
        dat      == Slice(input.data, hdr.dataOffset - EVT_RECORD_HEADER_LENGTH,
                          hdr.dataLength)
        errs == (IF src.length = 0 THEN {"EVT_DECODE_SOURCE_NAME_FAILED"} ELSE {})
                \cup (IF src.length # 0 /\ comp.length = 0
                      THEN {"EVT_DECODE_COMPUTER_NAME_FAILED"} ELSE {})
                \cup (IF strs.failed THEN {"EVT_DECODE_STRINGS_FAILED"} ELSE {})
                \cup (IF sidOver THEN {"EVT_DECODE_SID_OVERFLOW"} ELSE {})
                \cup (IF ~sidOver /\ hdr.userSidLength # 0 /\ ~sid.ok
                      THEN {"EVT_DECODE_SID_FAILED"} ELSE {})
                \cup (IF dataOver THEN {"EVT_DECODE_DATA_OVERFLOW"} ELSE {})
                \cup (IF ReadDwordLESigned(input.data, input.dataLength - 3) # hdr.length
                      THEN {"EVT_DECODE_LENGTH_MISMATCH"} ELSE {})
    IN [err |-> IF errs # {} THEN "EVT_ERROR" ELSE "EVT_OK",
        errors |-> errs,
        oob |-> src.oob \/ comp.oob \/ strs.oob
                \/ (~sidOver /\ sidBin.oob) \/ (~dataOver /\ dat.oob),
        output |-> [timeGenerated |-> Uint32ToTime(hdr.timeGenerated),
                    timeWritten |-> Uint32ToTime(hdr.timeWritten),
                    numStrings |-> Len(strs.strings),
                    strings |-> strs.strings,
                    userSid |-> IF sid.ok THEN sid.str ELSE NULL,
                    sourceName |-> IF src.length # 0 THEN src.out ELSE NULL,
                    computerName |-> IF comp.length # 0 THEN comp.out ELSE NULL,
                    dataLength |-> IF dataOver THEN 0 ELSE hdr.dataLength,
                    data |-> IF dataOver THEN NULL ELSE dat.bytes],
        untouched |-> IF src.length = 0 THEN {"computerName"} ELSE {}]


(* ===== Log engine (evt.c, "High-level Interface") ====================== *)

\* The engine's state is s = [io |-> the FileIO, log |-> the EvtLog object,
\* evicted |-> how often evtDeleteFirst has advanced startOffset (history)].
\* An engine function yields [err |-> its return value, s |-> the state].
\* Besides the EvtError values err may be "HANG" (the call never returns)
\* or "ABORT" (an assert fails).

\* evtReposition.
evtReposition(s, where) ==
    LET offset == CASE where = "EVT_REPOSITION_HEADER" -> 0
                    [] where = "EVT_REPOSITION_PAST_HEADER" -> EVT_HEADER_LENGTH
                    [] where = "EVT_REPOSITION_FIRST" -> s.log.header.startOffset
                    [] where = "EVT_REPOSITION_EOF" -> s.log.header.endOffset
    IN [s EXCEPT !.io = FileIOSeek(s.io, offset)]

\* evtInitializeHeader.
evtInitializeHeader(size) ==
    [headerSize |-> EVT_HEADER_LENGTH, endHeaderSize |-> EVT_HEADER_LENGTH,
     signature |-> EVT_SIGNATURE, majorVersion |-> 1, minorVersion |-> 1,
     startOffset |-> EVT_HEADER_LENGTH, endOffset |-> EVT_HEADER_LENGTH,
     currentRecordNumber |-> 1, oldestRecordNumber |-> 0, maxSize |-> size,
     flags |-> 0, retention |-> 0]

\* evtWriteHeader.
evtWriteHeader(s) ==
    LET s1 == evtReposition(s, "EVT_REPOSITION_HEADER")
    IN [s1 EXCEPT !.io = evtWrite(s1.io, evtHeaderTable(s.log.header))]

\* evtRead (log->io, evtRecordTable, &hdr, 0, -1) at startOffset, as both
\* evtDeleteFirst blocks do it.
ReadFirstHeader(s) ==
    LET s1 == evtReposition(s, "EVT_REPOSITION_FIRST")
        r  == FileIORead(s1.io, EVT_RECORD_HEADER_LENGTH)
    IN [ok |-> r.ok, s |-> [s1 EXCEPT !.io = r.io],
        hdr |-> IF r.ok THEN ReadRecordTable(r.data) ELSE ResetRecordHeader]

\* A variant of the new startOffset that goes to the start of the record
\* area also when exactly 56 bytes remain behind the record.
AdvanceStartAtBoundary(length, startOffset, firstRecordLen) ==
    LET endSpace == length - startOffset - firstRecordLen IN
    IF startOffset < 0 \/ firstRecordLen < 0 \/ endSpace < 0
    THEN EVT_HEADER_LENGTH - endSpace
    ELSE IF endSpace <= EVT_RECORD_HEADER_LENGTH THEN EVT_HEADER_LENGTH
    ELSE startOffset + firstRecordLen

\* The new startOffset of evtDeleteFirst.
AdvanceStart(length, startOffset, firstRecordLen) ==
    LET endSpace == length - startOffset - firstRecordLen IN
    IF startOffset < 0 \/ firstRecordLen < 0 \/ endSpace < 0
    THEN EVT_HEADER_LENGTH - endSpace
    ELSE IF endSpace < EVT_RECORD_HEADER_LENGTH THEN EVT_HEADER_LENGTH
    ELSE startOffset + firstRecordLen

\* evtDeleteFirst.
evtDeleteFirst(s) ==
    LET \* the reading of the new first record's header, r2 its result
        Reconstruct(r2) ==
            IF ~r2.ok THEN [err |-> "EVT_ERROR_IO", s |-> r2.s]
            ELSE [err |-> "EVT_OK",
                  s |-> [r2.s EXCEPT
                           !.log.header.oldestRecordNumber = r2.hdr.recordNumber,
                           !.log.firstRecordLen = r2.hdr.length,
                           !.log.firstRecordRead = TRUE]]
        \* s2 is the state with startOffset advanced to start
        Advanced(start, s2) ==
            IF start = s.log.header.endOffset
            THEN [err |-> "EVT_OK",
                  s |-> [s2 EXCEPT !.log.header.oldestRecordNumber = 0,
                                   !.log.firstRecordRead = FALSE]]
            ELSE Reconstruct(ReadFirstHeader(s2))
        Advance(s1, len, start) ==
            Advanced(start, [s1 EXCEPT !.log.firstRecordLen = len,
                                       !.log.header.startOffset = start,
                                       !.evicted = @ + 1])
        \* r1 is the result of reading the first record's header
        Delete(r1) ==
            IF ~r1.ok THEN [err |-> "EVT_ERROR_IO", s |-> r1.s]
            ELSE Advance(r1.s, r1.hdr.length,
                         AdvanceStart(s.log.length, s.log.header.startOffset,
                                      r1.hdr.length))
    IN IF s.log.header.oldestRecordNumber = 0 THEN [err |-> "EVT_ERROR", s |-> s]
       ELSE IF ~s.log.firstRecordRead THEN Delete(ReadFirstHeader(s))
       ELSE Advance(s, s.log.firstRecordLen,
                    AdvanceStart(s.log.length, s.log.header.startOffset,
                                 s.log.firstRecordLen))

\* The free space that the loop of evtPrepareWrite computes, a uint32_t.
FreeSpace(log) ==
    IF ULess(log.header.endOffset, log.header.startOffset)
    THEN log.header.startOffset - log.header.endOffset
    ELSE (log.header.startOffset - EVT_HEADER_LENGTH)
         + (log.length - log.header.endOffset)

\* What an iteration of the loop of evtPrepareWrite depends on.
LoopState(s) ==
    << s.log.header.startOffset, s.log.header.oldestRecordNumber,
       s.log.firstRecordRead, s.log.firstRecordLen >>

\* The while (1) loop of evtPrepareWrite.  An iteration that starts in a
\* state an earlier iteration started in repeats for ever: "HANG".
RECURSIVE PrepareLoop(_, _, _)
PrepareLoop(s, size, seen) ==
    IF ~ULess(FreeSpace(s.log), size) THEN [err |-> "EVT_OK", s |-> s]
    ELSE IF LoopState(s) \in seen THEN [err |-> "HANG", s |-> s]
    ELSE LET Deleted(d) ==
                 IF d.err # "EVT_OK" THEN d
                 ELSE PrepareLoop(d.s, size, seen \cup {LoopState(s)})
         IN Deleted(evtDeleteFirst(s))

\* The filler that evtPrepareWrite writes from the current position to the
\* end of the log file: pat[i & 3] for i = 0 .. endSpace - 1.
FillPattern(endSpace) ==
    [i \in 1..(IF endSpace > 0 THEN endSpace ELSE 0) |->
        IF (i - 1) % 4 = 0 THEN 39 ELSE 0]

\* evtPrepareWrite (log, size).
evtPrepareWrite(s, size) ==
    LET size1 == IF WideGe(s.log.header.endOffset,
                           s.log.length - EVT_RECORD_HEADER_LENGTH)
                 THEN size + (s.log.length - s.log.header.endOffset)
                 ELSE size
        \* l is the result of the loop
        Prepared(l) ==
            IF l.err # "EVT_OK" THEN l
            ELSE
            LET h == l.s.log.header IN
            IF h.oldestRecordNumber = 0
            THEN [err |-> "EVT_OK",
                  s |-> evtReposition(
                          [l.s EXCEPT !.log.header.startOffset = EVT_HEADER_LENGTH,
                                      !.log.header.endOffset = EVT_HEADER_LENGTH,
                                      !.log.header.flags = ClearFlag(@, EVT_HEADER_WRAP)],
                          "EVT_REPOSITION_EOF")]
            ELSE IF WideGe(h.endOffset, l.s.log.length - EVT_RECORD_HEADER_LENGTH)
            THEN IF ULess(h.endOffset, h.startOffset) THEN [err |-> "ABORT", s |-> l.s]
                 ELSE LET pat == FillPattern(l.s.log.length - l.s.io.pos)
                          io1 == IF pat = << >> THEN l.s.io
                                 ELSE FileIOWrite(l.s.io, pat).io
                      IN [err |-> "EVT_OK",
                          s |-> evtReposition(
                                  [l.s EXCEPT !.io = io1,
                                              !.log.header.endOffset = EVT_HEADER_LENGTH,
                                              !.log.header.flags =
                                                  SetFlag(@, EVT_HEADER_WRAP)],
                                  "EVT_REPOSITION_EOF")]
            ELSE [err |-> "EVT_OK", s |-> evtReposition(l.s, "EVT_REPOSITION_EOF")]
    IN Prepared(PrepareLoop(s, size1, {}))

\* evtSimulateWrite (startOffset, &endOffset, length, size); size is a
\* uint32_t, so is the result of size -= length - *endOffset.
evtSimulateWrite(startOffset, endOffset, length, size) ==
    IF WideGe(endOffset, length - EVT_RECORD_HEADER_LENGTH)
       /\ ULess(endOffset, startOffset)
    THEN [err |-> "EVT_ERROR", endOffset |-> endOffset]
    ELSE
    LET e1 == IF WideGe(endOffset, length - EVT_RECORD_HEADER_LENGTH)
              THEN EVT_HEADER_LENGTH ELSE endOffset
    IN IF ULess(e1, startOffset)
       THEN IF ULess(startOffset - e1, size)
            THEN [err |-> "EVT_ERROR", endOffset |-> e1]
            ELSE [err |-> "EVT_OK", endOffset |-> e1 + size]
       ELSE IF e1 >= 0 /\ size >= 0 /\ length - e1 >= size
       THEN LET size1 == size - (length - e1) IN
            IF ULess(startOffset - EVT_HEADER_LENGTH, size1)
            THEN [err |-> "EVT_ERROR", endOffset |-> EVT_HEADER_LENGTH]
            ELSE [err |-> "EVT_OK", endOffset |-> EVT_HEADER_LENGTH + size1]
       ELSE [err |-> "EVT_OK", endOffset |-> e1 + size]


\* The EvtLog object while no log is open: nothing reads it.
NoLog ==
    [header |-> evtInitializeHeader(0), changed |-> FALSE, firstRecordRead |-> FALSE,
     firstRecordLen |-> 0, length |-> 0]

\* A variant of the LOG_FULL return that first makes room as an append
\* with overwrite does.
LogFullAfterEviction(s0) ==
    LET Evicted(d) ==
            [err |-> "EVT_ERROR_LOG_FULL",
             s |-> [d.s EXCEPT !.log.header.flags =
                                   SetFlag(@, EVT_HEADER_LOGFULL_WRITTEN)]]
    IN Evicted(evtDeleteFirst(s0))

\* The LOG_FULL return of evtAppendRecord; s0 is the state with
\* LOGFULL_WRITTEN cleared.
LogFull(s0) ==
    [err |-> "EVT_ERROR_LOG_FULL",
     s |-> [s0 EXCEPT !.log.header.flags = SetFlag(@, EVT_HEADER_LOGFULL_WRITTEN)]]

\* evtAppendRecord (log, record, overwrite).
evtAppendRecord(s, record, overwrite) ==
    LET s0   == [s EXCEPT !.log.header.flags = ClearFlag(@, EVT_HEADER_LOGFULL_WRITTEN)]
        size == EVT_RECORD_HEADER_LENGTH + record.dataLength
        sim1 == evtSimulateWrite(s0.log.header.startOffset, s0.log.header.endOffset,
                                 s0.log.length, size)
        sim2 == evtSimulateWrite(s0.log.header.startOffset, sim1.endOffset,
                                 s0.log.length, EVT_EOF_LENGTH)
        \* p is the state after evtPrepareWrite, w2 the result of the last write
        Written(p, w2) ==
            IF ~w2.ok THEN [err |-> "EVT_ERROR_IO", s |-> [p EXCEPT !.io = w2.io]]
            ELSE
            LET wasEmpty == p.log.header.oldestRecordNumber = 0 IN
            [err |-> "EVT_OK",
             s |-> [p EXCEPT
                      !.io = w2.io,
                      !.log.header.oldestRecordNumber =
                          IF wasEmpty THEN record.header.recordNumber ELSE @,
                      !.log.header.startOffset = IF wasEmpty THEN p.io.pos ELSE @,
                      !.log.firstRecordRead = IF wasEmpty THEN TRUE ELSE @,
                      !.log.firstRecordLen = IF wasEmpty THEN record.header.length ELSE @,
                      !.log.header.currentRecordNumber =
                          record.header.recordNumber + 1,
                      !.log.header.endOffset = w2.io.pos,
                      !.log.changed = TRUE]]
        \* w1 is the result of writing the part before the end of the file
        Rest(p, endSpace, w1) ==
            IF ~w1.ok THEN Written(p, w1)
            ELSE Written(p, FileIOWrite(FileIOSeek(w1.io, EVT_HEADER_LENGTH),
                                        SubSeq(record.data, endSpace + 1,
                                               record.dataLength)))
        \* io1 is the FileIO after the record header is written
        Data(p, io1, endSpace) ==
            IF endSpace < 0 \/ endSpace >= record.dataLength
            THEN Written(p, FileIOWrite(io1, record.data))
            ELSE Rest(p, endSpace, FileIOWrite(io1, SubSeq(record.data, 1, endSpace)))
        Header(p, io1) == Data(p, io1, p.log.length - io1.pos)
        Prepared(p) ==
            IF p.err # "EVT_OK" THEN p
            ELSE Header(p.s, evtWrite(p.s.io, evtRecordTable(record.header)))
    IN IF ~overwrite /\ (sim1.err # "EVT_OK" \/ sim2.err # "EVT_OK")
       THEN LogFull(s0)
       ELSE Prepared(evtPrepareWrite(s0, size))

\* The EOF record of evtWriteEOF.
EOFRecord(header) ==
    [recordSizeBeginning |-> EVT_EOF_LENGTH, recordSizeEnd |-> EVT_EOF_LENGTH,
     one |-> 286331153, two |-> 572662306, three |-> 858993459, four |-> 1145324612,
     beginRecord |-> header.startOffset, endRecord |-> header.endOffset,
     currentRecordNumber |-> header.currentRecordNumber,
     oldestRecordNumber |-> header.oldestRecordNumber]

\* evtWriteEOF.
evtWriteEOF(s) ==
    LET Write(s1) ==
            [err |-> "EVT_OK",
             s |-> [s1 EXCEPT !.io = evtWrite(s1.io,
                                              evtEOFTable(EOFRecord(s1.log.header)))]]
        Prepared(p) ==
            IF p.err # "EVT_OK" THEN p
            ELSE IF p.s.log.header.oldestRecordNumber = 0
            THEN Write([p.s EXCEPT !.log.header.startOffset = p.s.log.header.endOffset])
            ELSE Write(p.s)
    IN Prepared(evtPrepareWrite(s, EVT_EOF_LENGTH))

\* An evtClose that writes the EOF record and the header but leaves the
\* DIRTY flag as it is.
evtCloseKeepsDirty(s) ==
    IF ~s.log.changed THEN [err |-> "EVT_OK", s |-> s]
    ELSE LET Written(e) ==
                 IF e.err # "EVT_OK" THEN e
                 ELSE [err |-> "EVT_OK", s |-> evtWriteHeader(e.s)]
         IN Written(evtWriteEOF(s))

\* evtClose; the log object is freed whatever the result.
evtClose(s) ==
    IF ~s.log.changed THEN [err |-> "EVT_OK", s |-> s]
    ELSE LET Written(e) ==
                 IF e.err # "EVT_OK" THEN e
                 ELSE [err |-> "EVT_OK",
                       s |-> evtWriteHeader(
                               [e.s EXCEPT !.log.header.flags =
                                               ClearFlag(@, EVT_HEADER_DIRTY)])]
         IN Written(evtWriteEOF(s))

\* evtOpenCreate (log, io, size) on the FileIO io.
evtOpenCreate(io, size) ==
    IF size < EVT_HEADER_LENGTH
    THEN [err |-> "EVT_ERROR", s |-> [io |-> io, log |-> NoLog, evicted |-> 0]]
    ELSE LET new_log == [header |-> [evtInitializeHeader(size) EXCEPT
                                       !.flags = EVT_HEADER_DIRTY],
                         changed |-> TRUE, firstRecordRead |-> FALSE,
                         firstRecordLen |-> 0, length |-> size]
             s1 == evtWriteHeader([io |-> FileIOTruncate(io, size), log |-> new_log,
                                   evicted |-> 0])
         IN [err |-> "EVT_OK", s |-> evtReposition(s1, "EVT_REPOSITION_PAST_HEADER")]

\* evtIOReadHeader without the check of the version: a header of another
\* version passes.
evtIOReadHeaderAnyVersion(io) ==
    LET r == FileIORead(io, EVT_HEADER_LENGTH)
        hdr == ReadHeaderTable(r.data)
        errs == (IF hdr.headerSize # EVT_HEADER_LENGTH
                    \/ hdr.endHeaderSize # EVT_HEADER_LENGTH
                 THEN {"EVT_HEADER_ERROR_WRONG_LENGTH"} ELSE {})
                \cup (IF hdr.signature # EVT_SIGNATURE
                      THEN {"EVT_HEADER_ERROR_WRONG_SIGNATURE"} ELSE {})
    IN IF ~r.ok THEN [err |-> "EVT_ERROR", errors |-> {}, io |-> r.io, hdr |-> evtInitializeHeader(0)]
       ELSE [err |-> IF errs # {} THEN "EVT_ERROR" ELSE "EVT_OK", errors |-> errs,
             io |-> r.io, hdr |-> hdr]

\* evtIOReadHeader: the header read at the current position and the set of
\* EvtHeaderError bits.
evtIOReadHeader(io) ==
    LET r == FileIORead(io, EVT_HEADER_LENGTH)
        hdr == ReadHeaderTable(r.data)
        errs == (IF hdr.headerSize # EVT_HEADER_LENGTH
                    \/ hdr.endHeaderSize # EVT_HEADER_LENGTH
                 THEN {"EVT_HEADER_ERROR_WRONG_LENGTH"} ELSE {})
                \cup (IF hdr.signature # EVT_SIGNATURE
                      THEN {"EVT_HEADER_ERROR_WRONG_SIGNATURE"} ELSE {})
                \cup (IF hdr.majorVersion # 1 \/ hdr.minorVersion # 1
                      THEN {"EVT_HEADER_ERROR_WRONG_VERSION"} ELSE {})
    IN IF ~r.ok THEN [err |-> "EVT_ERROR", errors |-> {}, io |-> r.io, hdr |-> evtInitializeHeader(0)]
       ELSE [err |-> IF errs # {} THEN "EVT_ERROR" ELSE "EVT_OK", errors |-> errs,
             io |-> r.io, hdr |-> hdr]

\* evtOpen (log, io, errorInfo) on the FileIO io.
evtOpen(io) ==
    IF Len(io.file) < EVT_HEADER_LENGTH
    THEN [err |-> "EVT_ERROR", errors |-> {},
          s |-> [io |-> io, log |-> NoLog, evicted |-> 0]]
    ELSE LET r == evtIOReadHeader(io) IN
         IF r.err # "EVT_OK"
         THEN [err |-> r.err, errors |-> r.errors,
               s |-> [io |-> r.io, log |-> NoLog, evicted |-> 0]]
         ELSE [err |-> "EVT_OK", errors |-> {},
               s |-> evtReposition(
                       [io |-> r.io, evicted |-> 0,
                        log |-> [header |-> r.hdr, changed |-> FALSE,
                                 firstRecordRead |-> FALSE, firstRecordLen |-> 0,
                                 length |-> Len(io.file)]],
                       "EVT_REPOSITION_FIRST")]

\* evtRewind.
evtRewind(s) == evtReposition(s, "EVT_REPOSITION_FIRST")


\* No record: what evtReadRecord leaves in *record when it fails.
NoRecord == [header |-> ResetRecordHeader, dataLength |-> 0, data |-> NULL]

\* The payload buffer of evtReadRecord for a record that goes beyond the end
\* of the log file: xmalloc'ed, so every byte starts with an indeterminate
\* value (fill); the first read stores n1 bytes at record->data, and the
\* read after the wrap stores its bytes at record->data as well.
WrappedPayload(first, second, dataLength, fill) ==
    [i \in 1..dataLength |-> IF i <= Len(second) THEN second[i]
                             ELSE IF i <= Len(first) THEN first[i]
                             ELSE fill]

\* evtReadRecord (log, record).  stringOffset is the value that
\* record->header.stringOffset holds on entry (the caller's memory, where the
\* check of an EOF record looks for recordSizeEnd); fill is the value of the
\* bytes of fresh heap memory.  hdrStored tells whether the call has stored
\* a whole record header in *record.
evtReadRecord(s, stringOffset, fill) ==
    LET s1 == IF s.log.length - s.io.pos < EVT_RECORD_HEADER_LENGTH
              THEN evtReposition(s, "EVT_REPOSITION_PAST_HEADER") ELSE s
        offset == s1.io.pos
        isFirst == offset = s1.log.header.startOffset
        r1 == FileIORead(s1.io, 4)
        length == ReadDwordLE(r1.data, 1)
    IN IF offset = s1.log.header.endOffset
       THEN [err |-> "EVT_ERROR_EOF", s |-> s1, record |-> NoRecord, hdrStored |-> FALSE]
       ELSE IF ~r1.ok
       THEN [err |-> "EVT_ERROR_IO", s |-> [s1 EXCEPT !.io = r1.io],
             record |-> NoRecord, hdrStored |-> FALSE]
       ELSE IF length = EVT_EOF_LENGTH
       THEN LET r2 == FileIORead(r1.io, 16) IN
            IF ~r2.ok
            THEN [err |-> "EVT_ERROR_IO", s |-> [s1 EXCEPT !.io = r2.io],
                  record |-> NoRecord, hdrStored |-> FALSE]
            ELSE [err |-> IF ReadDwordLE(r2.data, 1) = 286331153
                             /\ ReadDwordLE(r2.data, 5) = 572662306
                             /\ ReadDwordLE(r2.data, 9) = 858993459
                             /\ ReadDwordLE(r2.data, 13) = 1145324612
                             /\ stringOffset = EVT_EOF_LENGTH
                          THEN "EVT_ERROR_EOF" ELSE "EVT_ERROR",
                  s |-> [s1 EXCEPT !.io = r2.io],
                  record |-> NoRecord, hdrStored |-> FALSE]
       ELSE IF ULess(length, EVT_RECORD_MIN_LENGTH)
               \/ WideGt(length, s1.log.length - EVT_HEADER_LENGTH)
       THEN [err |-> "EVT_ERROR", s |-> [s1 EXCEPT !.io = r1.io],
             record |-> NoRecord, hdrStored |-> FALSE]
       ELSE
       LET r3 == FileIORead(r1.io, EVT_RECORD_HEADER_LENGTH - 4) IN
       IF ~r3.ok
       THEN [err |-> "EVT_ERROR_IO", s |-> [s1 EXCEPT !.io = r3.io],
             record |-> NoRecord, hdrStored |-> FALSE]
       ELSE
       LET header == ReadRecordTable(r1.data \o r3.data)
           off2 == r3.io.pos
           dataLength == length - EVT_RECORD_HEADER_LENGTH
           beyond == off2 + dataLength > s1.log.length
           wrap == HasFlag(s1.log.header.flags, EVT_HEADER_WRAP)
           ra == IF beyond THEN FileIORead(r3.io, s1.log.length - off2)
                 ELSE FileIORead(r3.io, dataLength)
           rb == IF beyond /\ ra.ok
                 THEN FileIORead(FileIOSeek(ra.io, EVT_HEADER_LENGTH),
                                 dataLength - (s1.log.length - off2))
                 ELSE ra
           data == IF beyond THEN WrappedPayload(ra.data, rb.data, dataLength, fill)
                   ELSE ra.data
       IN IF beyond /\ ~wrap
          THEN [err |-> "EVT_ERROR", s |-> [s1 EXCEPT !.io = r3.io],
                record |-> [NoRecord EXCEPT !.header = header], hdrStored |-> TRUE]
          ELSE IF ~rb.ok
          THEN [err |-> "EVT_ERROR_IO", s |-> [s1 EXCEPT !.io = rb.io],
                record |-> [NoRecord EXCEPT !.header = header], hdrStored |-> TRUE]
          ELSE [err |-> "EVT_OK",
                s |-> [s1 EXCEPT !.io = rb.io,
                                 !.log.firstRecordRead = IF isFirst THEN TRUE ELSE @,
                                 !.log.firstRecordLen = IF isFirst THEN length ELSE @],
                record |-> [header |-> header, dataLength |-> dataLength, data |-> data],
                hdrStored |-> TRUE]


(* ===== The program as a state machine ================================== *)

\* Sizes handed to evtOpenCreate: below the header length, header plus EOF
\* record, one minimal record plus a few bytes, and sizes at which two or
\* three records reach or cross the end of the file.
LogSizes == {40, 88, 120, 176, 250}

\* Numbers of opaque data bytes of the records handed to evtAppendRecord:
\* the minimal record of 64 bytes and a record of 80 bytes.
DataLengths == {0, 16}

\* Values that fresh heap memory may hold.
HeapBytes == {0, 170}

\* An indeterminate value of the caller's record->header.stringOffset.
Indeterminate == 0 - 1

VARIABLES
    phase,         \* "init", "open", "closed", or "hung" once a call never returns
    io,            \* the FileIO: the bytes of the file and the position
    log,           \* the EvtLog object
    stringOffset,  \* the caller's record->header.stringOffset
    evicted,       \* history: how often evtDeleteFirst advanced startOffset
    appended,      \* history: the records of the successful appends
    reads,         \* history: the results of evtReadRecord since the last rewind
    last,          \* history: the last call of an API action, its result, the
                   \* log before it,
                   \* and whether the program has ended without evtClose
    fresh,         \* history: the log was created and never closed or reopened
    rejected,      \* history: the number of appends that failed
    attempts,      \* number of evtAppendRecord calls
    opens,         \* number of evtOpen calls
    codec,         \* the record codec's input and results
    conv,          \* the csv2evt run: its options, its input, its progress
    errorInfo,     \* the caller's enum EvtHeaderError that evtOpen fills in
    evt2csv,       \* the evt2csv run: its progress and the rows it has written
    test           \* a unit test of a library function: its input and results

vars == << phase, io, log, stringOffset, evicted, appended, reads, last, fresh,
           rejected, attempts, opens, codec, conv, errorInfo, evt2csv, test >>

\* The record contents csv2evt hands to the encoder for a row with empty
\* names, no SID, no strings and n data bytes; the bytes tell the records
\* and the positions apart.
RowContents(n, recordNumber) ==
    [timeGenerated |-> TimeT(0), timeWritten |-> TimeT(0), numStrings |-> 0, strings |-> << >>,
     userSid |-> NULL, sourceName |-> << >>, computerName |-> << >>,
     dataLength |-> n, data |-> [i \in 1..n |-> (16 * recordNumber + i - 1) % 256]]

\* processRecord of csv2evt: the encoded record that is appended.
RowRecord(n, recordNumber) ==
    evtEncodeRecordData(RowContents(n, recordNumber),
                        [ResetRecordHeader EXCEPT !.recordNumber = recordNumber]).output

NoCall == [op |-> "none", err |-> "EVT_OK"]
Call(op, err, overwrite, length) ==
    [op |-> op, err |-> err, overwrite |-> overwrite, length |-> length,
     pre |-> log, prePos |-> io.pos, preFile |-> io.file, preEvicted |-> evicted,
     prev |-> [op |-> last.op, err |-> last.err],
     exited |-> op = "Exit" \/ (last.exited /\ op \notin {"Close", "OpenCreate"})]

NoReads == [valid |-> FALSE, results |-> << >>]
NoContents ==
    [timeGenerated |-> TimeT(0), timeWritten |-> TimeT(0), numStrings |-> 0, strings |-> << >>,
     userSid |-> NULL, sourceName |-> NULL, computerName |-> NULL,
     dataLength |-> 0, data |-> NULL]
IdleCodec ==
    [step |-> "idle", contents |-> NoContents,
     enc |-> [err |-> "EVT_OK", errors |-> {}, output |-> NoRecord],
     dec |-> [err |-> "EVT_OK", errors |-> {}, oob |-> FALSE, output |-> NoContents]]

\* No unit test.
NoTest == [step |-> "off"]

\* No evt2csv run.  wrt is the CsvWriter: the rows that are ended and the
\* fields of the row that is not; records tells of each record read whether
\* it decoded and the rows processRecord wrote for it.
NoEvt2Csv ==
    [step |-> "off", ret |-> "none", wrt |-> [rows |-> << >>, row |-> << >>],
     records |-> << >>, total |-> 0]

\* No csv2evt run.
NoConv ==
    [step |-> "off", noOverwrite |-> FALSE, renumber |-> FALSE, todo |-> 0, rows |-> 0,
     overwrite |-> FALSE, firstRecWritten |-> FALSE, fields |-> << >>, calls |-> << >>,
     ret |-> "none"]

InitLog ==
    /\ phase = "init"
    /\ io = [file |-> << >>, pos |-> 0]
    /\ log = NoLog
    /\ stringOffset = Indeterminate
    /\ evicted = 0
    /\ appended = << >>
    /\ reads = NoReads
    /\ last = [op |-> "none", err |-> "EVT_OK", overwrite |-> FALSE, length |-> 0,
               pre |-> NoLog, prePos |-> 0, preFile |-> << >>, preEvicted |-> 0,
               prev |-> NoCall, exited |-> FALSE]
    /\ fresh = FALSE
    /\ rejected = 0
    /\ attempts = 0
    /\ opens = 0
    /\ conv = NoConv
    /\ errorInfo = {}
    /\ evt2csv = NoEvt2Csv

Init == InitLog /\ codec = IdleCodec /\ test = NoTest

\* What the caller's record->header.stringOffset may hold on entry to
\* evtReadRecord: the value a read has stored, any value before that.
StaleValues ==
    IF stringOffset = Indeterminate THEN {0, EVT_EOF_LENGTH} ELSE {stringOffset}

Returned(err) == err \notin {"HANG", "ABORT"}

\* In the actions below r is the result of the one call the action makes.

\* evtOpenCreate on a new, empty file.
OpenCreate(size) ==
    /\ phase = "init"
    /\ \E r \in {evtOpenCreate(io, size)} :
        /\ phase' = IF r.err = "EVT_OK" THEN "open" ELSE "init"
        /\ io' = IF r.err = "EVT_OK" THEN r.s.io ELSE io
        /\ log' = IF r.err = "EVT_OK" THEN r.s.log ELSE log
        /\ fresh' = (r.err = "EVT_OK")
        /\ reads' = [valid |-> r.err = "EVT_OK", results |-> << >>]
        /\ last' = Call("OpenCreate", r.err, FALSE, size)
    /\ UNCHANGED << stringOffset, evicted, appended, rejected, attempts, opens, codec, conv, errorInfo, evt2csv, test >>

\* evtAppendRecord of the next row's record.
AppendCall(n, overwrite) ==
    /\ phase = "open"
    /\ \E record \in {RowRecord(n, log.header.currentRecordNumber)} :
       \E r \in {evtAppendRecord([io |-> io, log |-> log, evicted |-> evicted],
                                 record, overwrite)} :
          /\ phase' = IF Returned(r.err) THEN "open" ELSE "hung"
          /\ io' = r.s.io
          /\ log' = r.s.log
          /\ evicted' = r.s.evicted
          /\ appended' = IF r.err = "EVT_OK" THEN Append(appended, record) ELSE appended
          /\ rejected' = IF r.err = "EVT_OK" THEN rejected ELSE rejected + 1
          /\ last' = Call("AppendRecord", r.err, overwrite, record.header.length)
    /\ reads' = NoReads
    /\ attempts' = attempts + 1
    /\ UNCHANGED << stringOffset, fresh, opens, codec, conv, errorInfo, evt2csv, test >>

AppendRecord(n, overwrite) == attempts < MaxAppends /\ AppendCall(n, overwrite)

\* evtReadRecord into the caller's record.
ReadRecord(fill, stale) ==
    /\ phase = "open"
    /\ Len(reads.results) < MaxReads
    /\ \E r \in {evtReadRecord([io |-> io, log |-> log, evicted |-> evicted],
                               stale, fill)} :
          /\ io' = r.s.io
          /\ log' = r.s.log
          /\ stringOffset' = IF r.hdrStored THEN r.record.header.stringOffset
                             ELSE stringOffset
          /\ reads' = [reads EXCEPT !.results =
                          Append(@, [err |-> r.err, record |-> r.record])]
          /\ last' = Call("ReadRecord", r.err, FALSE, r.record.header.length)
    /\ UNCHANGED << phase, evicted, appended, fresh, rejected, attempts, opens, codec, conv, errorInfo, evt2csv, test >>

\* evtRewind.
Rewind ==
    /\ phase = "open"
    /\ io' = evtRewind([io |-> io, log |-> log, evicted |-> evicted]).io
    /\ reads' = [valid |-> TRUE, results |-> << >>]
    /\ last' = Call("Rewind", "EVT_OK", FALSE, 0)
    /\ UNCHANGED << phase, log, stringOffset, evicted, appended, fresh, rejected,
                    attempts, opens, codec, conv, errorInfo, evt2csv, test >>

\* evtClose.
Close ==
    /\ phase = "open"
    /\ \E r \in {evtClose([io |-> io, log |-> log, evicted |-> evicted])} :
        /\ phase' = IF Returned(r.err) THEN "closed" ELSE "hung"
        /\ io' = r.s.io
        /\ log' = r.s.log
        /\ evicted' = r.s.evicted
        /\ last' = Call("Close", r.err, FALSE, 0)
    /\ reads' = NoReads
    /\ fresh' = FALSE
    /\ UNCHANGED << stringOffset, appended, rejected, attempts, opens, codec, conv, errorInfo, evt2csv, test >>

\* The program ends without evtClose; exit() flushes the FILE.
Exit ==
    /\ phase = "open"
    /\ phase' = "closed"
    /\ last' = Call("Exit", "EVT_OK", FALSE, 0)
    /\ reads' = NoReads
    /\ fresh' = FALSE
    /\ UNCHANGED << io, log, stringOffset, evicted, appended, rejected, attempts,
                    opens, codec, conv, errorInfo, evt2csv, test >>

\* evtOpen on a new FILE for the file that an earlier run left.
Open ==
    /\ phase = "closed"
    /\ opens < MaxOpens
    /\ \E r \in {evtOpen([io EXCEPT !.pos = 0])} :
        /\ phase' = IF r.err = "EVT_OK" THEN "open" ELSE "closed"
        /\ io' = r.s.io
        /\ log' = IF r.err = "EVT_OK" THEN r.s.log ELSE log
        /\ last' = Call("Open", r.err, FALSE, 0)
        /\ reads' = [valid |-> r.err = "EVT_OK", results |-> << >>]
        /\ errorInfo' = IF r.errors # {} THEN r.errors ELSE errorInfo
    /\ stringOffset' = Indeterminate
    /\ opens' = opens + 1
    /\ UNCHANGED << evicted, appended, fresh, rejected, attempts, codec, conv,
                    evt2csv, test >>

Next ==
    \/ \E size \in LogSizes : OpenCreate(size)
    \/ \E n \in DataLengths, overwrite \in BOOLEAN : AppendRecord(n, overwrite)
    \/ \E fill \in HeapBytes, stale \in StaleValues : ReadRecord(fill, stale)
    \/ Rewind
    \/ Close
    \/ Exit
    \/ Open

Spec == Init /\ [][Next]_vars


(* ===== A created log that is only appended to ========================== *)

\* Longer runs of appends, on sizes at which a record ends at the end of the
\* file (176), 56 bytes before it (232), or less than 56 bytes before it.
RingSizes == {120, 176, 232, 250}

RingAppend(n, overwrite) == attempts < MaxRingAppends /\ AppendCall(n, overwrite)

NextRing ==
    \/ \E size \in RingSizes : OpenCreate(size)
    \/ \E n \in DataLengths, overwrite \in BOOLEAN : RingAppend(n, overwrite)

SpecRing == Init /\ [][NextRing]_vars


(* ===== csv2evt (csv2evt.c) ============================================= *)

\* Numbers of complete rows after the size row.
RowCounts == 0..MaxRows

\* The contents of a complete row: empty names, no SID, n data bytes and
\* the one empty string that splitMessageString makes of an empty field.
CsvRowContents(n, recordNumber) ==
    [RowContents(n, recordNumber) EXCEPT !.numStrings = 1, !.strings = << << >> >>]

\* What evtDestroyRecordContents can do: with a string in the contents it
\* hands free() a pointer past the start of the strings array, which is
\* undefined; the C library aborts the program or the program goes on.
evtDestroyRecordContents(contents) ==
    IF contents.numStrings > 0 THEN {"abort", "continue"} ELSE {"continue"}

\* processRecord (ctx): [ret |-> what it returns, or "HANG" / "ABORT" when
\* an evtAppendRecord does not return; s |-> the engine state; overwrite |->
\* ctx->overwrite; calls |-> the evtAppendRecord calls it made; records |->
\* the record when it was appended].
processRecord(s, contents, recordNumber, ctxOverwrite, noOverwrite) ==
    LET Note(record, overwrite, a) ==
            [recordNumber |-> record.header.recordNumber, overwrite |-> overwrite,
             err |-> a.err, after |-> a.s.log.header.currentRecordNumber]
        Result(record, overwrite, calls, a) ==
            [ret |-> IF ~Returned(a.err) THEN a.err
                     ELSE IF a.err = "EVT_OK" THEN "TRUE" ELSE "FALSE",
             s |-> a.s, overwrite |-> overwrite, calls |-> calls,
             records |-> IF a.err = "EVT_OK" THEN << record >> ELSE << >>]
        Retried(record, first, a) ==
            Result(record, TRUE, << first, Note(record, TRUE, a) >>, a)
        Appended(record, a) ==
            IF a.err = "EVT_ERROR_LOG_FULL" /\ ~noOverwrite
            THEN Retried(record, Note(record, ctxOverwrite, a),
                         evtAppendRecord(a.s, record, TRUE))
            ELSE Result(record, ctxOverwrite, << Note(record, ctxOverwrite, a) >>, a)
        Encoded(enc) ==
            IF enc.err # "EVT_OK"
            THEN [ret |-> "FALSE", s |-> s, overwrite |-> ctxOverwrite,
                  calls |-> << >>, records |-> << >>]
            ELSE Appended(enc.output, evtAppendRecord(s, enc.output, ctxOverwrite))
    IN Encoded(evtEncodeRecordData(contents,
                   [ResetRecordHeader EXCEPT !.recordNumber = recordNumber]))

\* processField without the test of CSV2EVT_RENUMBER: the record keeps the
\* number of its row.
processFieldRecordNoKept(number, renumber, firstRecWritten, currentRecordNumber) ==
    IF number <= 0 THEN [ignore |-> TRUE, recordNumber |-> 0]
    ELSE [ignore |-> FALSE, recordNumber |-> number]

\* processField, case FIELD_RECORD_NO, on a token that strtoll reads in full
\* as number: whether the row is to be ignored, and the record number put
\* into ctx->rec.header.
processFieldRecordNo(number, renumber, firstRecWritten, currentRecordNumber) ==
    LET msg == number < 0 \/ number = 0
    IN IF renumber THEN [ignore |-> FALSE, recordNumber |-> currentRecordNumber]
       ELSE IF msg THEN [ignore |-> TRUE, recordNumber |-> 0]
       ELSE IF firstRecWritten /\ number < currentRecordNumber
       THEN [ignore |-> TRUE, recordNumber |-> 0]
       ELSE [ignore |-> FALSE, recordNumber |-> number]

\* processFile up to the first row: the size row is read and the log is
\* created with that size.
Csv2EvtStartWith(size, rows, noOverwrite, renumber) ==
    /\ phase = "init" /\ conv.step = "off"
    /\ \E r \in {evtOpenCreate(io, size)} :
        /\ phase' = IF r.err = "EVT_OK" THEN "open" ELSE "closed"
        /\ io' = IF r.err = "EVT_OK" THEN r.s.io ELSE io
        /\ log' = IF r.err = "EVT_OK" THEN r.s.log ELSE log
        /\ fresh' = (r.err = "EVT_OK")
        /\ conv' = [step |-> IF r.err = "EVT_OK" THEN "rows" ELSE "done",
                    noOverwrite |-> noOverwrite, renumber |-> renumber,
                    todo |-> rows, rows |-> rows, overwrite |-> FALSE,
                    firstRecWritten |-> FALSE, fields |-> << >>, calls |-> << >>,
                    ret |-> IF r.err = "EVT_OK" THEN "none" ELSE "FALSE"]
    /\ UNCHANGED << stringOffset, evicted, appended, reads, last, rejected, attempts,
                    opens, codec, errorInfo, evt2csv, test >>

Csv2EvtStart(size, rows, noOverwrite) == Csv2EvtStartWith(size, rows, noOverwrite, FALSE)

\* processFile over one complete row whose first field reads as number
\* (CSV_FIELD for each field, then CSV_EOR): processField; unless the row is
\* ignored, processRecord; when that returns nonzero, the jump to
\* processFile_error_content, where the contents are destroyed, the log is
\* closed and ret is returned as it is; otherwise resetRecord,
\* evtDestroyRecordContents and the next row.  The fields after the first
\* of an ignored row are not processed, so its contents stay empty.
Csv2EvtRowWith(number, n, destroyed) ==
    /\ phase = "open" /\ conv.step = "rows" /\ conv.todo > 0
    /\ \E field \in {processFieldRecordNo(number, conv.renumber, conv.firstRecWritten,
                                          log.header.currentRecordNumber)} :
       \E contents \in {IF field.ignore THEN NoContents
                        ELSE CsvRowContents(n, conv.rows - conv.todo + 1)} :
       /\ destroyed \in evtDestroyRecordContents(contents)
       /\ \E r \in {IF field.ignore
                    THEN [ret |-> "FALSE",
                          s |-> [io |-> io, log |-> log, evicted |-> evicted],
                          overwrite |-> conv.overwrite, calls |-> << >>,
                          records |-> << >>]
                    ELSE processRecord([io |-> io, log |-> log, evicted |-> evicted],
                                       contents, field.recordNumber,
                                       conv.overwrite, conv.noOverwrite)} :
          \E c \in {IF r.ret = "TRUE" /\ destroyed = "continue"
                    THEN evtClose(r.s) ELSE [err |-> "none", s |-> r.s]} :
             /\ io' = c.s.io
             /\ log' = c.s.log
             /\ evicted' = c.s.evicted
             /\ appended' = appended \o r.records
             /\ rejected' = rejected + Len(r.calls) - Len(r.records)
             /\ attempts' = attempts + Len(r.calls)
             /\ phase' = IF ~Returned(r.ret) \/ ~Returned(c.err) THEN "hung"
                         ELSE IF r.ret = "TRUE" \/ destroyed = "abort" THEN "closed"
                         ELSE "open"
             /\ fresh' = (fresh /\ r.ret = "FALSE" /\ destroyed = "continue")
             /\ conv' = [conv EXCEPT
                           !.todo = @ - 1,
                           !.overwrite = r.overwrite,
                           !.firstRecWritten = @ \/ r.ret = "TRUE",
                           !.fields = Append(@, [number |-> number,
                                                 current |-> log.header.currentRecordNumber,
                                                 ignore |-> field.ignore,
                                                 recordNumber |-> field.recordNumber]),
                           !.calls = @ \o r.calls,
                           !.step = IF r.ret = "FALSE" /\ destroyed = "continue"
                                    THEN "rows" ELSE "done",
                           !.ret = IF ~Returned(r.ret) THEN r.ret
                                   ELSE IF destroyed = "abort" THEN "ABORT"
                                   ELSE IF r.ret = "FALSE" THEN "none"
                                   ELSE IF ~Returned(c.err) THEN c.err
                                   ELSE "FALSE"]
    /\ UNCHANGED << stringOffset, reads, last, opens, codec, errorInfo, evt2csv, test >>

\* A row whose record number is its place in the input.
Csv2EvtRow(n, destroyed) == Csv2EvtRowWith(conv.rows - conv.todo + 1, n, destroyed)

\* processFile at the end of the input (CSV_EOF): ret = TRUE, then the log is
\* closed; the contents are empty by now.
Csv2EvtEof ==
    /\ phase = "open" /\ conv.step = "rows" /\ conv.todo = 0
    /\ \E c \in {evtClose([io |-> io, log |-> log, evicted |-> evicted])} :
        /\ io' = c.s.io
        /\ log' = c.s.log
        /\ evicted' = c.s.evicted
        /\ phase' = IF Returned(c.err) THEN "closed" ELSE "hung"
        /\ conv' = [conv EXCEPT !.step = "done",
                                !.ret = IF ~Returned(c.err) THEN c.err
                                        ELSE IF c.err = "EVT_OK" THEN "TRUE"
                                        ELSE "FALSE"]
    /\ fresh' = FALSE
    /\ UNCHANGED << stringOffset, appended, reads, last, rejected, attempts, opens,
                    codec, errorInfo, evt2csv, test >>

NextCsv2Evt ==
    \/ \E size \in LogSizes, rows \in RowCounts, noOverwrite \in BOOLEAN :
          Csv2EvtStart(size, rows, noOverwrite)
    \/ \E n \in DataLengths, destroyed \in {"abort", "continue"} :
          Csv2EvtRow(n, destroyed)
    \/ Csv2EvtEof

SpecCsv2Evt == Init /\ [][NextCsv2Evt]_vars

\* csv2evt with and without -r on rows with these record numbers.
RowNumbers == {0, 1, 3}

NextCsv2EvtNumbers ==
    \/ \E size \in LogSizes, rows \in RowCounts, noOverwrite, renumber \in BOOLEAN :
          Csv2EvtStartWith(size, rows, noOverwrite, renumber)
    \/ \E number \in RowNumbers, n \in DataLengths, destroyed \in {"abort", "continue"} :
          Csv2EvtRowWith(number, n, destroyed)
    \/ Csv2EvtEof

SpecCsv2EvtNumbers == Init /\ [][NextCsv2EvtNumbers]_vars


(* ===== evtOpen on a medium whose header may be damaged ================= *)

\* Headers found on the medium: the header of an empty log of MediumSize
\* bytes with each of the checked fields either intact or changed.
MediumSize == 120
WrongSignature == EVT_SIGNATURE + 1
MediumHeaders ==
    { [evtInitializeHeader(MediumSize) EXCEPT
          !.headerSize = hs, !.endHeaderSize = es, !.signature = sig,
          !.majorVersion = major, !.minorVersion = minor] :
      hs \in {EVT_HEADER_LENGTH, 44}, es \in {EVT_HEADER_LENGTH, 0},
      sig \in {EVT_SIGNATURE, WrongSignature}, major \in {1, 2}, minor \in {1, 0} }

\* The file of a closed log with header h: the header, then zero bytes.
MediumFile(h) ==
    evtHeaderTable(h) \o [i \in 1..(MediumSize - EVT_HEADER_LENGTH) |-> 0]

InitMedium ==
    /\ phase = "closed"
    /\ \E h \in MediumHeaders : io = [file |-> MediumFile(h), pos |-> 0]
    /\ log = NoLog
    /\ stringOffset = Indeterminate
    /\ evicted = 0
    /\ appended = << >>
    /\ reads = NoReads
    /\ last = [op |-> "none", err |-> "EVT_OK", overwrite |-> FALSE, length |-> 0,
               pre |-> NoLog, prePos |-> 0, preFile |-> << >>, preEvicted |-> 0,
               prev |-> NoCall, exited |-> FALSE]
    /\ fresh = FALSE
    /\ rejected = 0
    /\ attempts = 0
    /\ opens = 0
    /\ codec = IdleCodec
    /\ conv = NoConv
    /\ errorInfo = {}
    /\ evt2csv = NoEvt2Csv
    /\ test = NoTest

\* evtOpenCreate on the FileIO that evtOpen has just refused.
OpenCreateAfterOpen(size) ==
    /\ phase = "closed" /\ last.op = "Open" /\ last.err # "EVT_OK"
    /\ \E r \in {evtOpenCreate(io, size)} :
        /\ phase' = IF r.err = "EVT_OK" THEN "open" ELSE "closed"
        /\ io' = IF r.err = "EVT_OK" THEN r.s.io ELSE io
        /\ log' = IF r.err = "EVT_OK" THEN r.s.log ELSE log
        /\ fresh' = (r.err = "EVT_OK")
        /\ reads' = [valid |-> r.err = "EVT_OK", results |-> << >>]
        /\ last' = Call("OpenCreate", r.err, FALSE, size)
    /\ UNCHANGED << stringOffset, evicted, appended, rejected, attempts, opens, codec,
                    conv, errorInfo, evt2csv, test >>

NextOpen ==
    \/ Open
    \/ \E size \in LogSizes : OpenCreateAfterOpen(size)
    \/ Close

SpecOpen == InitMedium /\ [][NextOpen]_vars


(* ===== The evt2csv run ================================================= *)

\* The log files evt2csv is run on hold up to MaxLogRecords records in a
\* file of LogFileSize bytes that never wraps.
MaxLogRecords == 3
LogFileSize == 512

\* Kinds of records in these logs, as evtEncodeRecordData makes them:
\* without a SID, with a SID, with a SID and a message string, and without
\* a SID but with 51 data bytes.
LogKinds == {"plain", "sid", "strings", "large"}
LogSid == << 83, 45, 49, 45, 53, 45, 51, 50, 45, 53, 52, 52 >>
LogContents(kind) ==
    [timeGenerated |-> TimeT(0), timeWritten |-> TimeT(0),
     numStrings |-> IF kind = "strings" THEN 1 ELSE 0,
     strings |-> IF kind = "strings" THEN << << 120, 124, 121 >> >> ELSE << >>,
     userSid |-> IF kind \in {"sid", "strings"} THEN LogSid ELSE NULL,
     sourceName |-> << 97 >>, computerName |-> << 99 >>,
     dataLength |-> IF kind = "large" THEN 51 ELSE 0,
     data |-> IF kind = "large" THEN [i \in 1..51 |-> i] ELSE << >>]
LogRecord(kind, recordNumber) ==
    evtEncodeRecordData(LogContents(kind),
                        [ResetRecordHeader EXCEPT !.recordNumber = recordNumber]).output

\* The bytes of the records of the kinds in kinds, numbered from 1, as
\* evtAppendRecord writes them: the header, then the data.
RECURSIVE LogRecordBytes(_, _)
LogRecordBytes(kinds, i) ==
    LET Bytes(record) == evtRecordTable(record.header) \o record.data
    IN IF i > Len(kinds) THEN << >>
       ELSE Bytes(LogRecord(kinds[i], i)) \o LogRecordBytes(kinds, i + 1)

\* The header of a cleanly closed log with count records in used bytes.
LogFileHeader(count, used) ==
    [evtInitializeHeader(LogFileSize) EXCEPT
        !.endOffset = EVT_HEADER_LENGTH + used,
        !.currentRecordNumber = count + 1,
        !.oldestRecordNumber = IF count = 0 THEN 0 ELSE 1]

\* The file of that log: the header, the records, the EOF record, zeros.
LogFile(kinds) ==
    LET Padded(bytes) == bytes \o Zeros(LogFileSize - Len(bytes))
        WithRecords(records) ==
            LET WithHeader(h) ==
                    Padded(evtHeaderTable(h) \o records \o evtEOFTable(EOFRecord(h)))
            IN WithHeader(LogFileHeader(Len(kinds), Len(records)))
    IN WithRecords(LogRecordBytes(kinds, 1))

LogKindLists == UNION { [1..k -> LogKinds] : k \in 0..MaxLogRecords }
LogFiles == { LogFile(kinds) : kinds \in LogKindLists }

InitEvt2Csv ==
    /\ phase = "closed"
    /\ \E file \in LogFiles : io = [file |-> file, pos |-> 0]
    /\ log = NoLog
    /\ stringOffset = Indeterminate
    /\ evicted = 0
    /\ appended = << >>
    /\ reads = NoReads
    /\ last = [op |-> "none", err |-> "EVT_OK", overwrite |-> FALSE, length |-> 0,
               pre |-> NoLog, prePos |-> 0, preFile |-> << >>, preEvicted |-> 0,
               prev |-> NoCall, exited |-> FALSE]
    /\ fresh = FALSE
    /\ rejected = 0
    /\ attempts = 0
    /\ opens = 0
    /\ codec = IdleCodec
    /\ conv = NoConv
    /\ errorInfo = {}
    /\ evt2csv = NoEvt2Csv
    /\ test = NoTest

\* csvWrite (wrt, field): a null field ends the row, any other field is
\* added to the row.  A field is [null |-> whether the pointer is null,
\* from |-> what the text was made of].
csvWrite(wrt, field) ==
    IF field.null THEN [rows |-> Append(wrt.rows, wrt.row), row |-> << >>]
    ELSE [wrt EXCEPT !.row = Append(@, field.from)]

RECURSIVE csvWriteAll(_, _, _)
csvWriteAll(wrt, fields, i) ==
    IF i > Len(fields) THEN wrt
    ELSE csvWriteAll(csvWrite(wrt, fields[i]), fields, i + 1)

\* processRecord of evt2csv after a successful decode: the csvWrite calls
\* in their order, the last one with NULL for the end of the record.
Evt2CsvWrites(contents) ==
    << [null |-> FALSE, from |-> "recordNumber"],
       [null |-> FALSE, from |-> "timeGenerated"],
       [null |-> FALSE, from |-> "timeWritten"],
       [null |-> FALSE, from |-> "eventID"],
       [null |-> FALSE, from |-> "eventType"],
       [null |-> FALSE, from |-> "eventCategory"],
       [null |-> contents.sourceName = NULL, from |-> "sourceName"],
       [null |-> contents.computerName = NULL, from |-> "computerName"],
       [null |-> contents.userSid = NULL, from |-> "userSid"],
       [null |-> FALSE, from |-> "strings"],
       [null |-> FALSE, from |-> "data"],
       [null |-> TRUE, from |-> "end"] >>

\* processRecord (data, writer) of evt2csv.
evt2csvProcessRecord(data, wrt) ==
    LET Decoded(d) ==
            IF d.err # "EVT_OK" THEN [err |-> d.err, wrt |-> wrt, contents |-> d.output]
            ELSE [err |-> "EVT_OK", wrt |-> csvWriteAll(wrt, Evt2CsvWrites(d.output), 1),
                  contents |-> d.output]
    IN Decoded(evtDecodeRecordData(data))

\* processFile of evt2csv up to the loop: evtOpen on the input file.
Evt2CsvStart ==
    /\ phase = "closed" /\ evt2csv.step = "off"
    /\ \E r \in {evtOpen([io EXCEPT !.pos = 0])} :
        /\ phase' = IF r.err = "EVT_OK" THEN "open" ELSE "closed"
        /\ io' = r.s.io
        /\ log' = IF r.err = "EVT_OK" THEN r.s.log ELSE log
        /\ errorInfo' = IF r.errors # {} THEN r.errors ELSE errorInfo
        /\ evt2csv' = [evt2csv EXCEPT
                          !.step = IF r.err = "EVT_OK" THEN "records" ELSE "done",
                          !.ret = IF r.err = "EVT_OK" THEN "none" ELSE "FALSE",
                          !.total = r.s.log.header.currentRecordNumber - 1]
    /\ stringOffset' = Indeterminate
    /\ opens' = opens + 1
    /\ UNCHANGED << evicted, appended, reads, last, fresh, rejected, attempts, codec,
                    conv, test >>

\* One turn of the loop of processFile: evtReadRecord; when it returns a
\* record, processRecord and evtDestroyRecordData; when either fails, the
\* end of the loop, where ret becomes TRUE after EVT_ERROR_EOF only, and
\* evtClose.
Evt2CsvRecord(fill, stale, destroyed) ==
    /\ phase = "open" /\ evt2csv.step = "records"
    /\ \E r \in {evtReadRecord([io |-> io, log |-> log, evicted |-> evicted],
                               stale, fill)} :
       \E p \in {IF r.err = "EVT_OK" THEN evt2csvProcessRecord(r.record, evt2csv.wrt)
                 ELSE [err |-> r.err, wrt |-> evt2csv.wrt, contents |-> NoContents]} :
       \E c \in {IF p.err = "EVT_OK" THEN [err |-> "none", s |-> r.s]
                 ELSE evtClose(r.s)} :
          /\ destroyed \in (IF p.err = "EVT_OK" THEN evtDestroyRecordContents(p.contents)
                            ELSE {"continue"})
          /\ io' = c.s.io
          /\ log' = c.s.log
          /\ evicted' = c.s.evicted
          /\ stringOffset' = IF r.hdrStored THEN r.record.header.stringOffset
                             ELSE stringOffset
          /\ phase' = IF ~Returned(c.err) THEN "hung"
                      ELSE IF p.err = "EVT_OK" /\ destroyed = "continue" THEN "open"
                      ELSE "closed"
          /\ evt2csv' = [evt2csv EXCEPT
                !.wrt = p.wrt,
                !.records = IF r.err = "EVT_OK"
                            THEN Append(@, [recordNumber |-> r.record.header.recordNumber,
                                            decoded |-> p.err = "EVT_OK",
                                            rows |-> SubSeq(p.wrt.rows,
                                                            Len(evt2csv.wrt.rows) + 1,
                                                            Len(p.wrt.rows))])
                            ELSE @,
                !.step = IF p.err = "EVT_OK" /\ destroyed = "continue"
                         THEN "records" ELSE "done",
                !.ret = IF p.err = "EVT_OK"
                        THEN (IF destroyed = "abort" THEN "ABORT" ELSE "none")
                        ELSE IF ~Returned(c.err) THEN c.err
                        ELSE IF p.err = "EVT_ERROR_EOF" /\ c.err = "EVT_OK" THEN "TRUE"
                        ELSE "FALSE"]
    /\ UNCHANGED << appended, reads, last, fresh, rejected, attempts, opens, codec,
                    conv, errorInfo, test >>

NextEvt2Csv ==
    \/ Evt2CsvStart
    \/ \E fill \in HeapBytes, stale \in StaleValues,
          destroyed \in {"abort", "continue"} : Evt2CsvRecord(fill, stale, destroyed)

SpecEvt2Csv == InitEvt2Csv /\ [][NextEvt2Csv]_vars


(* ===== The record codec on its own ===================================== *)

\* Well-formed record contents: names and strings in valid UTF-8 (ASCII, a
\* two-byte and a four-byte sequence), a valid SID or none, and data of
\* several lengths.
CodecNames == { << >>, << 97, 98 >>, << 195, 169 >> }
CodecStrings == { << >>, << << 120 >> >>, << << 113, 240, 157, 132, 158 >>, << >> >> }
CodecSids == { NULL, << 83, 45, 49, 45, 53, 45, 51, 50, 45, 53, 52, 52 >> }
CodecDataLengths == {0, 3, 30, 51}
CodecTimes == {TimeT(0), TimeT(5)}

CodecInputs ==
    { [timeGenerated |-> t, timeWritten |-> t, numStrings |-> Len(strs),
       strings |-> strs, userSid |-> sid, sourceName |-> src,
       computerName |-> << 99 >>, dataLength |-> n,
       data |-> [i \in 1..n |-> (7 * i) % 256]] :
      t \in CodecTimes, strs \in CodecStrings, sid \in CodecSids,
      src \in CodecNames, n \in CodecDataLengths }

InitCodec ==
    /\ InitLog
    /\ test = NoTest
    /\ \E c \in CodecInputs : codec = [IdleCodec EXCEPT !.step = "input", !.contents = c]

\* evtEncodeRecordData on a record that resetRecord of csv2evt prepared.
Encode ==
    /\ codec.step = "input"
    /\ codec' = [codec EXCEPT !.step = "encoded",
                              !.enc = evtEncodeRecordData(codec.contents,
                                                          ResetRecordHeader)]
    /\ UNCHANGED << phase, io, log, stringOffset, evicted, appended, reads, last,
                    fresh, rejected, attempts, opens, conv, errorInfo, evt2csv, test >>

\* evtDecodeRecordData on the encoder's output.
Decode ==
    /\ codec.step = "encoded"
    /\ codec.enc.err = "EVT_OK"
    /\ codec' = [codec EXCEPT !.step = "decoded",
                              !.dec = evtDecodeRecordData(codec.enc.output)]
    /\ UNCHANGED << phase, io, log, stringOffset, evicted, appended, reads, last,
                    fresh, rejected, attempts, opens, conv, errorInfo, evt2csv, test >>

NextCodec == Encode \/ Decode

SpecCodec == InitCodec /\ [][NextCodec]_vars


\* The record codec on times of the whole range of time_t: 5, 2^31,
\* 2^32 - 1, 2^32 and -1.
CodecWideTimes ==
    {TimeT(5), << 0, 0, 0, 0, 128, 0, 0, 0 >>, << 0, 0, 0, 0, 255, 255, 255, 255 >>,
     << 0, 0, 0, 1, 0, 0, 0, 0 >>, << 255, 255, 255, 255, 255, 255, 255, 255 >>}

InitCodecTimes ==
    /\ InitLog
    /\ test = NoTest
    /\ \E g \in CodecWideTimes, w \in CodecWideTimes, n \in CodecDataLengths :
          codec = [IdleCodec EXCEPT
                      !.step = "input",
                      !.contents = [timeGenerated |-> g, timeWritten |-> w, numStrings |-> 0,
                                    strings |-> << >>, userSid |-> NULL,
                                    sourceName |-> << 115 >>, computerName |-> << 99 >>,
                                    dataLength |-> n,
                                    data |-> [i \in 1..n |-> (7 * i) % 256]]]

SpecCodecTimes == InitCodecTimes /\ [][NextCodec]_vars


(* ===== The strings field of a CSV row (evt2csv.c, csv2evt.c) =========== *)

MaxStrings == 2
MaxStringLen == 2

\* The characters the strings are made of: 'x', '|' and '\'.
StringChars == {120, 124, 92}

\* xstrdup (buf.data): the bytes up to the first NUL.
RECURSIVE CString(_, _)
CString(data, i) ==
    IF CharAt(data, i) = 0 THEN << >> ELSE << data[i] >> \o CString(data, i + 1)

bufferAppendChar(buf, c) == bufferAppend(buf, << c >>, 0).buf

\* bufferDestroy then bufferInit.
bufferEmpty(buf) == BUFFER_INITIALIZER

\* The inner loop of the 10th field: every '|' and '\' gets a leading '\'.
RECURSIVE EscapeString(_, _, _)
EscapeString(final, cur, i) ==
    IF CharAt(cur, i) = 0 THEN final
    ELSE LET quoted == IF cur[i] = 124 \/ cur[i] = 92
                       THEN bufferAppendChar(final, 92) ELSE final
         IN EscapeString(bufferAppendChar(quoted, cur[i]), cur, i + 1)

\* The outer loop of the 10th field: the strings joined with '|'.
RECURSIVE JoinStrings(_, _, _)
JoinStrings(final, strings, i) ==
    IF i > Len(strings) THEN final
    ELSE JoinStrings(EscapeString(IF i > 1 THEN bufferAppendChar(final, 124) ELSE final,
                                  strings[i], 1),
                     strings, i + 1)

\* The 10th field as processRecord of evt2csv hands it to csvWrite.
joinMessageStrings(strings) ==
    CString(bufferAppendChar(JoinStrings(BUFFER_INITIALIZER, strings, 1), 0).data, 1)

\* splitMessageString: the loop over the token; p is the position of the
\* character looked at (the terminating NUL is at Len(token) + 1).
RECURSIVE SplitLoop(_, _, _, _)
SplitLoop(token, p0, buf, strings) ==
    LET quoted == CharAt(token, p0) = 92
        p      == IF quoted THEN p0 + 1 ELSE p0
        c      == CharAt(token, p)
    IN IF c = 0 \/ (c = 124 /\ ~quoted)
       THEN LET out == Append(strings, CString(bufferAppendChar(buf, 0).data, 1))
            IN IF c = 0 THEN out
               ELSE SplitLoop(token, p + 1, bufferEmpty(buf), out)
       ELSE SplitLoop(token, p + 1, bufferAppendChar(buf, c), strings)

splitMessageString(token) ==
    LET strings == SplitLoop(token, 1, BUFFER_INITIALIZER, << >>)
    IN [numStrings |-> Len(strings), strings |-> strings]

RECURSIVE StringsOfLen(_)
StringsOfLen(n) ==
    IF n = 0 THEN {<< >>}
    ELSE {<< c >> \o s : c \in StringChars, s \in StringsOfLen(n - 1)}

MessageStrings == UNION {StringsOfLen(n) : n \in 0..MaxStringLen}

MessageStringLists == UNION {[1..n -> MessageStrings] : n \in 0..MaxStrings}

InitStrings ==
    /\ InitLog
    /\ codec = IdleCodec
    /\ test \in {[step |-> "strings", strings |-> l, final |-> << >>,
                  numStrings |-> 0, split |-> << >>] : l \in MessageStringLists}

\* evt2csv writes the strings of a record into the 10th field.
WriteStrings ==
    /\ test.step = "strings"
    /\ test' = [test EXCEPT !.step = "field", !.final = joinMessageStrings(test.strings)]
    /\ UNCHANGED << phase, io, log, stringOffset, evicted, appended, reads, last, fresh,
                    rejected, attempts, opens, codec, conv, errorInfo, evt2csv >>

\* csv2evt splits the 10th field.
SplitStrings ==
    /\ test.step = "field"
    /\ \E r \in {splitMessageString(test.final)} :
          test' = [test EXCEPT !.step = "split", !.numStrings = r.numStrings,
                               !.split = r.strings]
    /\ UNCHANGED << phase, io, log, stringOffset, evicted, appended, reads, last, fresh,
                    rejected, attempts, opens, codec, conv, errorInfo, evt2csv >>

NextStrings == WriteStrings \/ SplitStrings

SpecStrings == InitStrings /\ [][NextStrings]_vars

(* ===== CSV files (csv.c) =============================================== *)

MaxCsvRecords == 2
MaxCsvFields == 2

\* The initial allocation of csvRead's token buffer.
CsvBuffAlloc == 32

EOF == -1

mustBeQuoted(c) == c = 10 \/ c = 13 \/ c = 34 \/ c = 44

\* The body of the quoted branch: every '"' is written twice.
RECURSIVE CsvQuoted(_, _)
CsvQuoted(field, i) ==
    IF i > Len(field) THEN << >>
    ELSE (IF field[i] = 34 THEN << 34, 34 >> ELSE << field[i] >>) \o CsvQuoted(field, i + 1)

\* csvWrite on a stream: wrt is the CsvWriter with the bytes of its stream,
\* field the C string to write or NULL for the end of the record.
csvWriteFile(wrt, field) ==
    IF field = NULL
    THEN [fp |-> wrt.fp \o << 10 >>, notFirstField |-> FALSE]
    ELSE LET comma == IF wrt.notFirstField THEN << 44 >> ELSE << >>
             quote == (\E i \in 1..Len(field) : mustBeQuoted(field[i])) \/ field = << >>
         IN [fp |-> wrt.fp \o comma \o
                    (IF quote THEN << 34 >> \o CsvQuoted(field, 1) \o << 34 >> ELSE field),
             notFirstField |-> TRUE]

csvCreateWriter == [fp |-> << >>, notFirstField |-> FALSE]

csvCreateReader(stream) == [fp |-> stream, pos |-> 0, state |-> "STA_NORMAL"]

\* fgetc and ungetc on the reader's stream.
fgetc(rdr) == IF rdr.pos < Len(rdr.fp) THEN rdr.fp[rdr.pos + 1] ELSE EOF
Advance(rdr) == IF rdr.pos < Len(rdr.fp) THEN [rdr EXCEPT !.pos = @ + 1] ELSE rdr
ungetc(c, rdr) == IF c = EOF THEN rdr ELSE [rdr EXCEPT !.pos = @ - 1]

\* csvRead_send: the token gets its terminating NUL.  A token that was
\* never pushed to is allocated with one byte; otherwise the NUL goes to
\* buff[Len(data)], which is outside the block when the token fills it.
csvReadSend(rdr, buff) ==
    [rdr |-> rdr, status |-> "CSV_FIELD", field |-> buff.data,
     overrun |-> buff.alloc > 0 /\ Len(buff.data) >= buff.alloc]

\* csvRead_push: the block is allocated with 32 bytes and doubled when
\* the character to store would not fit.
csvReadPush(buff, c) ==
    [alloc |-> IF buff.alloc = 0 THEN CsvBuffAlloc
               ELSE IF Len(buff.data) + 1 > buff.alloc THEN 2 * buff.alloc
               ELSE buff.alloc,
     data |-> Append(buff.data, c)]

RECURSIVE csvReadBegin(_, _)
csvReadBegin(rdr, buff) ==
    CASE rdr.state = "STA_NORMAL" ->
           LET c == fgetc(rdr)
               r == Advance(rdr)
           IN CASE c = 44 -> csvReadSend(r, buff)
                [] c = 13 ->
                     LET d == fgetc(r)
                     IN csvReadSend([(IF d # 10 THEN ungetc(d, Advance(r)) ELSE Advance(r))
                                       EXCEPT !.state = "STA_EOR"], buff)
                [] c = 10 -> csvReadSend([r EXCEPT !.state = "STA_EOR"], buff)
                [] c = 34 -> csvReadBegin([r EXCEPT !.state = "STA_INQUOTES"], buff)
                [] c = EOF -> csvReadSend([r EXCEPT !.state = "STA_EOR_EOF"], buff)
                [] OTHER -> csvReadBegin(r, csvReadPush(buff, c))
      [] rdr.state = "STA_INQUOTES" ->
           LET c == fgetc(rdr)
               r == Advance(rdr)
           IN CASE c = EOF -> csvReadSend([r EXCEPT !.state = "STA_EOR_EOF"], buff)
                [] c = 34 ->
                     LET d == fgetc(r)
                     IN IF d # 34
                        THEN csvReadBegin([ungetc(d, Advance(r)) EXCEPT !.state = "STA_NORMAL"],
                                          buff)
                        ELSE csvReadBegin(Advance(r), csvReadPush(buff, d))
                [] OTHER -> csvReadBegin(r, csvReadPush(buff, c))
      [] rdr.state = "STA_EOR" ->
           [rdr |-> [rdr EXCEPT !.state = "STA_NORMAL"], status |-> "CSV_EOR",
            field |-> << >>, overrun |-> FALSE]
      [] rdr.state = "STA_EOR_EOF" ->
           [rdr |-> [rdr EXCEPT !.state = "STA_EOF"], status |-> "CSV_EOR",
            field |-> << >>, overrun |-> FALSE]
      [] OTHER ->
           [rdr |-> rdr, status |-> "CSV_EOF", field |-> << >>, overrun |-> FALSE]

csvRead(rdr) == csvReadBegin(rdr, [alloc |-> 0, data |-> << >>])

\* The fields of the test: empty, plain, each character that must be
\* quoted, and a token that fills the first allocation of csvRead.
CsvFieldTexts ==
    {<< >>, << 97 >>, << 44 >>, << 34 >>, << 13 >>, << 10 >>, << 34, 97, 34, 34 >>,
     [i \in 1..CsvBuffAlloc |-> 97]}

CsvRecords == UNION {[1..n -> CsvFieldTexts] : n \in 1..MaxCsvFields}

\* fields[] of the test: the fields of each record followed by NULL.
RECURSIVE CsvFlatten(_)
CsvFlatten(records) ==
    IF records = << >> THEN << >>
    ELSE Head(records) \o << NULL >> \o CsvFlatten(Tail(records))

CsvInputs == {CsvFlatten(l) : l \in UNION {[1..n -> CsvRecords] : n \in 0..MaxCsvRecords}}

InitCsv ==
    /\ InitLog
    /\ codec = IdleCodec
    /\ test \in {[step |-> "write", fields |-> f, i |-> 1, wrt |-> csvCreateWriter,
                  rdr |-> csvCreateReader(<< >>), read |-> << >>] : f \in CsvInputs}

\* One pass of the writing loop; after the last one the stream is rewound
\* and the reader is created.
CsvWrite ==
    /\ test.step = "write"
    /\ IF test.i > Len(test.fields)
       THEN test' = [test EXCEPT !.step = "read", !.rdr = csvCreateReader(test.wrt.fp)]
       ELSE test' = [test EXCEPT !.i = @ + 1,
                                 !.wrt = csvWriteFile(test.wrt, test.fields[test.i])]
    /\ UNCHANGED << phase, io, log, stringOffset, evicted, appended, reads, last, fresh,
                    rejected, attempts, opens, codec, conv, errorInfo, evt2csv >>

\* One csvRead, until it reports the end of the file.  Writing the NUL
\* outside the block is undefined: the call goes on or the program is ended.
CsvRead ==
    /\ test.step = "read"
    /\ \E r \in {csvRead(test.rdr)} :
          \/ test' = [test EXCEPT !.rdr = r.rdr,
                                  !.read = Append(@, [status |-> r.status, field |-> r.field]),
                                  !.step = IF r.status = "CSV_EOF" THEN "eof" ELSE "read"]
          \/ /\ r.overrun
             /\ test' = [test EXCEPT !.step = "abort"]
    /\ UNCHANGED << phase, io, log, stringOffset, evicted, appended, reads, last, fresh,
                    rejected, attempts, opens, codec, conv, errorInfo, evt2csv >>

NextCsv == CsvWrite \/ CsvRead

SpecCsv == InitCsv /\ [][NextCsv]_vars

(* ===== Base64 (base64.c) ============================================== *)

MaxBase64Len == 4

\* a | b on two bytes.
RECURSIVE BitOr(_, _, _)
BitOr(a, b, bits) ==
    IF bits = 0 THEN 0
    ELSE (IF a % 2 = 1 \/ b % 2 = 1 THEN 1 ELSE 0) + 2 * BitOr(a \div 2, b \div 2, bits - 1)

\* A byte read as a (signed) char, and an int stored into a char.
SignedChar(b) == IF b >= 128 THEN b - 256 ELSE b
ToChar(n) == SignedChar(n % 256)

\* The table of base64_decode_value, for the characters '+' to 'z'.
Base64Decoding ==
    << 62, -1, -1, -1, 63, 52, 53, 54, 55, 56, 57, 58, 59, 60, 61, -1, -1, -1, -2, -1, -1,
       -1, 0, 1, 2, 3, 4, 5, 6, 7, 8, 9, 10, 11, 12, 13, 14, 15, 16, 17, 18, 19, 20, 21, 22,
       23, 24, 25, -1, -1, -1, -1, -1, -1, 26, 27, 28, 29, 30, 31, 32, 33, 34, 35, 36, 37,
       38, 39, 40, 41, 42, 43, 44, 45, 46, 47, 48, 49, 50, 51 >>

\* The string of base64_encode_value.
Base64Encoding ==
    [i \in 1..64 |-> IF i <= 26 THEN 64 + i
                     ELSE IF i <= 52 THEN 70 + i
                     ELSE IF i <= 62 THEN i - 5
                     ELSE IF i = 63 THEN 43 ELSE 47]

\* base64_decode_value: value_in - 43 is kept in a char and may be as large
\* as the size of the table, where the read is outside it and gives any
\* byte (beyond).
base64_decode_value(c, beyond) ==
    LET value_in == ToChar(SignedChar(c) - 43)
    IN IF value_in < 0 \/ value_in > Len(Base64Decoding) THEN -1
       ELSE IF value_in = Len(Base64Decoding) THEN SignedChar(beyond)
       ELSE Base64Decoding[value_in + 1]

base64_encode_value(value_in) ==
    IF value_in > 63 THEN 61 ELSE Base64Encoding[value_in + 1]

base64_init_decodestate == [step |-> "a", plainchar |-> 0]
base64_init_encodestate == [step |-> "A", result |-> 0]

\* base64_decode_block from the label of state.step on: i is the number of
\* characters consumed, out the bytes below plainchar, cur the byte at
\* plainchar.  After step d plainchar is at a byte nobody has written
\* (beyond).  fragment is the last decoded value, below zero to fetch one.
RECURSIVE DecodeBlock(_, _, _, _, _, _, _)
DecodeBlock(code_in, i, step, out, cur, fragment, beyond) ==
    IF fragment < 0
    THEN IF i = Len(code_in)
         THEN [length |-> Len(out), plaintext |-> out,
               state |-> [step |-> step, plainchar |-> cur]]
         ELSE DecodeBlock(code_in, i + 1, step, out, cur,
                          ToChar(base64_decode_value(code_in[i + 1], beyond)), beyond)
    ELSE CASE step = "a" ->
                DecodeBlock(code_in, i, "b", out, ((fragment % 64) * 4) % 256, -1, beyond)
           [] step = "b" ->
                DecodeBlock(code_in, i, "c",
                            Append(out, BitOr(cur, (fragment % 64) \div 16, 8)),
                            ((fragment % 16) * 16) % 256, -1, beyond)
           [] step = "c" ->
                DecodeBlock(code_in, i, "d",
                            Append(out, BitOr(cur, (fragment % 64) \div 4, 8)),
                            ((fragment % 4) * 64) % 256, -1, beyond)
           [] OTHER ->
                DecodeBlock(code_in, i, "a",
                            Append(out, BitOr(cur, fragment % 64, 8)), beyond, -1, beyond)

base64_decode_block(code_in, state_in, beyond) ==
    DecodeBlock(code_in, 0, state_in.step, << >>, state_in.plainchar, -1, beyond)

\* base64_encode_block from the label of state.step on.
RECURSIVE EncodeBlock(_, _, _, _, _)
EncodeBlock(plaintext_in, i, step, result, code) ==
    IF i = Len(plaintext_in)
    THEN [length |-> Len(code), code |-> code, state |-> [step |-> step, result |-> result]]
    ELSE LET fragment == plaintext_in[i + 1]
         IN CASE step = "A" ->
                   EncodeBlock(plaintext_in, i + 1, "B", (fragment % 4) * 16,
                               Append(code, base64_encode_value(fragment \div 4)))
              [] step = "B" ->
                   EncodeBlock(plaintext_in, i + 1, "C", (fragment % 16) * 4,
                               Append(code, base64_encode_value(
                                                BitOr(result, fragment \div 16, 8))))
              [] OTHER ->
                   EncodeBlock(plaintext_in, i + 1, "A", fragment % 64,
                               code \o << base64_encode_value(
                                              BitOr(result, fragment \div 64, 8)),
                                          base64_encode_value(fragment % 64) >>)

base64_encode_block(plaintext_in, state_in) ==
    EncodeBlock(plaintext_in, 0, state_in.step, state_in.result, << >>)

\* An end of block that writes the padding but not the pending bits.
base64_encode_blockendPaddingOnly(state_in) ==
    (CASE state_in.step = "B" -> << 61, 61 >>
       [] state_in.step = "C" -> << 61 >>
       [] OTHER -> << >>) \o << 0 >>

\* base64_encode_blockend: what it writes, the terminating NUL included.
base64_encode_blockend(state_in) ==
    (CASE state_in.step = "B" -> << base64_encode_value(state_in.result), 61, 61 >>
       [] state_in.step = "C" -> << base64_encode_value(state_in.result), 61 >>
       [] OTHER -> << >>) \o << 0 >>

\* The bytes the strings are made of.
Base64Bytes == {0, 1, 127, 128, 255}

RECURSIVE BytesOfLen(_)
BytesOfLen(n) ==
    IF n = 0 THEN {<< >>}
    ELSE {<< c >> \o s : c \in Base64Bytes, s \in BytesOfLen(n - 1)}

Base64Inputs == UNION {BytesOfLen(n) : n \in 0..MaxBase64Len}

InitBase64 ==
    /\ InitLog
    /\ codec = IdleCodec
    /\ test \in {[step |-> "plain", string |-> b, enbuff |-> << >>, length |-> 0,
                  debuff |-> << >>] : b \in Base64Inputs}

\* base64_encode_block followed by base64_encode_blockend.
Base64Encode ==
    /\ test.step = "plain"
    /\ \E e \in {base64_encode_block(test.string, base64_init_encodestate)} :
          test' = [test EXCEPT !.step = "encoded",
                               !.enbuff = e.code \o base64_encode_blockend(e.state)]
    /\ UNCHANGED << phase, io, log, stringOffset, evicted, appended, reads, last, fresh,
                    rejected, attempts, opens, codec, conv, errorInfo, evt2csv >>

\* base64_decode_block on the strlen (enbuff) characters of the code.
Base64Decode ==
    /\ test.step = "encoded"
    /\ \E beyond \in HeapBytes :
          \E d \in {base64_decode_block(CString(test.enbuff, 1), base64_init_decodestate,
                                        beyond)} :
             test' = [test EXCEPT !.step = "decoded", !.length = d.length,
                                  !.debuff = d.plaintext]
    /\ UNCHANGED << phase, io, log, stringOffset, evicted, appended, reads, last, fresh,
                    rejected, attempts, opens, codec, conv, errorInfo, evt2csv >>

NextBase64 == Base64Encode \/ Base64Decode

SpecBase64 == InitBase64 /\ [][NextBase64]_vars

(* ===== The SID conversions on their own (sid.c) ======================== *)

MaxSubAuthorities == 2

\* Numbers are given by their big endian bytes: revisions, identifier
\* authorities up to 2^48 - 1 and sub-authorities up to 2^32 - 1.
SidRevisions == {<< 0 >>, << 1 >>, << 255 >>}
SidAuthorities == {<< 0 >>, << 5 >>, << 1, 0, 0, 0, 0 >>, << 255, 255, 255, 255, 255, 255 >>}
SidSubAuthorityValues == {<< 0 >>, << 21 >>, << 128, 0, 0, 0 >>, << 255, 255, 255, 255 >>}

SidSubAuthorityLists ==
    UNION {[1..n -> SidSubAuthorityValues] : n \in 0..MaxSubAuthorities}

\* The text of one number: its decimal digits, or the text given for a
\* number that is out of range.
RECURSIVE SidJoin(_)
SidJoin(texts) ==
    IF texts = << >> THEN << >> ELSE << 45 >> \o Head(texts) \o SidJoin(Tail(texts))

\* "S-" revision "-" authority ("-" sub-authority)*
SidText(rev, auth, subs) == << 83 >> \o SidJoin(<< rev, auth >> \o subs)

\* The number of big endian bytes b in n bytes.
PadTo(b, n) == Zeros(n - Len(b)) \o b

CanonicalSidTexts ==
    {SidText(Decimal(r), Decimal(a), [k \in DOMAIN l |-> Decimal(l[k])]) :
        r \in SidRevisions, a \in SidAuthorities, l \in SidSubAuthorityLists}

RECURSIVE SidSubAuthorityBytes(_)
SidSubAuthorityBytes(l) ==
    IF l = << >> THEN << >>
    ELSE LET b == PadTo(Head(l), 4)
         IN << b[4], b[3], b[2], b[1] >> \o SidSubAuthorityBytes(Tail(l))

WellFormedSids ==
    {<< r[1], Len(l) >> \o PadTo(a, 6) \o SidSubAuthorityBytes(l) :
        r \in SidRevisions, a \in SidAuthorities, l \in SidSubAuthorityLists}

\* Texts with one defect each: "-1", 256, 2^48 and 2^32 as numbers.
MinusOne == << 45, 49 >>
DefectiveSidTexts ==
    {[kind |-> "prefix", text |-> << 88, 45, 49, 45, 53 >>],
     [kind |-> "prefix", text |-> << 83, 49, 45, 53 >>],
     [kind |-> "revision", text |-> SidText(Decimal(<< 1, 0 >>), << 53 >>, << >>)],
     [kind |-> "revision", text |-> SidText(MinusOne, << 53 >>, << >>)],
     [kind |-> "authority",
      text |-> SidText(<< 49 >>, Decimal(<< 1, 0, 0, 0, 0, 0, 0 >>), << >>)],
     [kind |-> "authority", text |-> SidText(<< 49 >>, MinusOne, << >>)],
     [kind |-> "subauthority",
      text |-> SidText(<< 49 >>, << 53 >>, << Decimal(<< 1, 0, 0, 0, 0 >>) >>)],
     [kind |-> "subauthority", text |-> SidText(<< 49 >>, << 53 >>, << MinusOne >>)]}

\* Blocks that are shorter than the SID they hold.
ShortSids ==
    UNION {{SubSeq(b, 1, n) : n \in {k \in {0, 7, 8, 11, 12, 15} : k < Len(b)}} :
              b \in {s \in WellFormedSids : s[1] = 1 /\ s[4] = 0}}

SidInputs ==
    {[step |-> "text", kind |-> "canonical", text |-> t, binary |-> << >>,
      back |-> << >>] : t \in CanonicalSidTexts}
    \cup {[step |-> "text", kind |-> d.kind, text |-> d.text, binary |-> << >>,
           back |-> << >>] : d \in DefectiveSidTexts}
    \cup {[step |-> "binary", kind |-> "wellformed", text |-> << >>, binary |-> b,
           back |-> << >>] : b \in WellFormedSids}
    \cup {[step |-> "binary", kind |-> "short", text |-> << >>, binary |-> b,
           back |-> << >>] : b \in ShortSids}

InitSid == InitLog /\ codec = IdleCodec /\ test \in SidInputs

\* sidToBinary on the text given, or on the text sidToString has made.
SidToBinary ==
    /\ test.step \in {"text", "binary.text"}
    /\ \E r \in {sidToBinary(test.text)} :
          test' = IF test.step = "text"
                  THEN [test EXCEPT !.step = IF r.ok THEN "text.binary" ELSE "text.NULL",
                                    !.binary = r.sid]
                  ELSE [test EXCEPT !.step = IF r.ok THEN "binary.back" ELSE "binary.back.NULL",
                                    !.back = r.sid]
    /\ UNCHANGED << phase, io, log, stringOffset, evicted, appended, reads, last, fresh,
                    rejected, attempts, opens, codec, conv, errorInfo, evt2csv >>

\* sidToString on the block given, or on the block sidToBinary has made.
SidToString ==
    /\ test.step \in {"binary", "text.binary"}
    /\ \E r \in {sidToString(test.binary)} :
          test' = IF test.step = "binary"
                  THEN [test EXCEPT !.step = IF r.ok THEN "binary.text" ELSE "binary.NULL",
                                    !.text = r.str]
                  ELSE [test EXCEPT !.step = IF r.ok THEN "text.back" ELSE "text.back.NULL",
                                    !.back = r.str]
    /\ UNCHANGED << phase, io, log, stringOffset, evicted, appended, reads, last, fresh,
                    rejected, attempts, opens, codec, conv, errorInfo, evt2csv >>

NextSid == SidToBinary \/ SidToString

SpecSid == InitSid /\ [][NextSid]_vars

(* ===== The byte buffer on its own (datastruct.c) ======================= *)

MaxBufferCalls == 3

BufferLengths == {1, 3, 127}
BufferAligns == {0, 1, 3, 4, 256}

InitBuffer ==
    /\ InitLog
    /\ codec = IdleCodec
    /\ test = [step |-> "buffer", buf |-> BUFFER_INITIALIZER, calls |-> 0,
               last |-> [op |-> "bufferInit", pre |-> BUFFER_INITIALIZER, length |-> 0,
                         align |-> 0, offset |-> 0, overrun |-> FALSE]]

\* The block after a realloc that followed padding written outside it:
\* the new block holds at those offsets what the heap held.
AfterOverrun(r, pre, heap) ==
    [r.buf EXCEPT !.data = [k \in 1..Len(r.buf.data) |->
                               IF k > pre.allocated /\ k <= r.offset THEN heap
                               ELSE r.buf.data[k]]]

\* bufferAppend of length bytes 'x' with an alignment.  Padding written
\* outside the block is undefined: the program is ended, or it goes on and
\* the bytes are in the new block or are not.
BufferAppend(length, align) ==
    /\ test.step = "buffer"
    /\ test.calls < MaxBufferCalls
    /\ \E r \in {bufferAppend(test.buf, [k \in 1..length |-> 120], align)} :
          LET call == [op |-> "bufferAppend", pre |-> test.buf, length |-> length,
                       align |-> align, offset |-> r.offset, overrun |-> r.overrun]
          IN \/ test' = [test EXCEPT !.buf = r.buf, !.calls = @ + 1, !.last = call]
             \/ /\ r.overrun
                /\ \E heap \in HeapBytes :
                      test' = [test EXCEPT !.buf = AfterOverrun(r, test.buf, heap),
                                           !.calls = @ + 1, !.last = call]
             \/ /\ r.overrun
                /\ test' = [test EXCEPT !.step = "abort", !.calls = @ + 1, !.last = call]
    /\ UNCHANGED << phase, io, log, stringOffset, evicted, appended, reads, last, fresh,
                    rejected, attempts, opens, codec, conv, errorInfo, evt2csv >>

BufferEmpty ==
    /\ test.step = "buffer"
    /\ test.calls < MaxBufferCalls
    /\ test' = [test EXCEPT !.buf = bufferEmpty(test.buf), !.calls = @ + 1,
                            !.last = [op |-> "bufferEmpty", pre |-> test.buf, length |-> 0,
                                      align |-> 0, offset |-> 0, overrun |-> FALSE]]
    /\ UNCHANGED << phase, io, log, stringOffset, evicted, appended, reads, last, fresh,
                    rejected, attempts, opens, codec, conv, errorInfo, evt2csv >>

NextBuffer ==
    \/ \E length \in BufferLengths, align \in BufferAligns : BufferAppend(length, align)
    \/ BufferEmpty

SpecBuffer == InitBuffer /\ [][NextBuffer]_vars

\* The offset at which evtReadRecord looks for a record when the stream is
\* at offset: past the header when fewer than 56 bytes remain.
ReadOffset(length, offset) ==
    IF length - offset < EVT_RECORD_HEADER_LENGTH THEN EVT_HEADER_LENGTH ELSE offset

(* ===== The decoder on records of any shape ============================= *)

\* The most message strings that a record header announces.
MaxDecodeStrings == 2

\* Pieces of payloads: names "a" and "c" with their NUL units, a name that
\* is a lone surrogate, the string "x", the SID S-1-5-32 and three bytes of
\* opaque data padded to a DWORD.
WideNames == << 97, 0, 0, 0, 99, 0, 0, 0 >>
WideSurrogate == << 0, 216, 0, 0 >>
WideX == << 120, 0, 0, 0 >>
SidBlock == sidToBinary(<< 83, 45, 49, 45, 53, 45, 51, 50 >>).sid
DataBlock == << 7, 14, 21, 0 >>

\* A payload: the sections and the trailing length of the record.
PayloadOf(sections) ==
    sections \o DwordLE(EVT_RECORD_HEADER_LENGTH + Len(sections) + 4)

\* Payloads: shorter than 8 bytes; the sections of a small record (32
\* bytes); the same followed by 172 bytes of zeros (204 bytes, so that every
\* section ends 60 bytes or more before the end and no byte of the record
\* length 260 is above 127); 8 bytes without a NUL unit; names of which the
\* first, or the second, is not valid UTF-16; valid names and the string
\* "x" followed by a string that is not valid UTF-16.
DecodePayloads ==
    { Zeros(4),
      PayloadOf(WideNames \o WideX \o SidBlock \o DataBlock),
      PayloadOf(WideNames \o WideX \o SidBlock \o DataBlock \o Zeros(172)),
      << 65, 0, 66, 0, 67, 0, 68, 0 >>,
      PayloadOf(WideSurrogate \o << 99, 0, 0, 0 >> \o WideX \o Zeros(188)),
      PayloadOf(<< 97, 0, 0, 0 >> \o WideSurrogate \o WideX \o Zeros(188)),
      PayloadOf(WideNames \o WideX \o WideSurrogate \o Zeros(184)) }

\* Record headers: every offset and length either fits the sections above
\* (strings at 64, SID at 68, data at 80), is 0, or points far outside.
DecodeHeaders ==
    { [ResetRecordHeader EXCEPT !.stringOffset = so, !.numStrings = ns,
                                !.userSidOffset = uo, !.userSidLength = ul,
                                !.dataOffset = do, !.dataLength = dl] :
      so \in {0, 64, 200}, ns \in 0..MaxDecodeStrings, uo \in {0, 68},
      ul \in {0, 12, 200}, do \in {0, 80, 200}, dl \in {0, 3} }

DecodeInputs ==
    { [step |-> "record",
       input |-> [header |-> [h EXCEPT !.length = EVT_RECORD_HEADER_LENGTH + Len(p)],
                  dataLength |-> Len(p), data |-> p]] :
      h \in DecodeHeaders, p \in DecodePayloads }

InitDecode == InitLog /\ codec = IdleCodec /\ test \in DecodeInputs

\* evtDecodeRecordData on the record given.
DecodeRecord ==
    /\ test.step = "record"
    /\ test' = [step |-> "decoded", input |-> test.input,
                dec |-> evtDecodeRecordData(test.input)]
    /\ UNCHANGED << phase, io, log, stringOffset, evicted, appended, reads, last, fresh,
                    rejected, attempts, opens, codec, conv, errorInfo, evt2csv >>

NextDecode == DecodeRecord

SpecDecode == InitDecode /\ [][NextDecode]_vars

(* ===== Reading a log whose header is behind its contents =============== *)

\* Logs that were not closed cleanly: the file holds at most one record
\* and, behind it, an EOF record, but the header's endOffset is the one of
\* an earlier state of the log, so a reader meets the EOF record at a
\* position that is not endOffset.
StaleEndOffsets == {LogFileSize - EVT_EOF_LENGTH, LogFileSize}

\* EOF records as they may be found: intact, with the first or the last of
\* the four magic DWORDs changed, and with a closing size other than 40.
SentinelKinds == {"intact", "one", "four", "size"}
SentinelBytes(kind, h) ==
    evtEOFTable([EOFRecord(h) EXCEPT
                    !.one = IF kind = "one" THEN 0 ELSE @,
                    !.four = IF kind = "four" THEN 0 ELSE @,
                    !.recordSizeEnd = IF kind = "size" THEN 0 ELSE @])

SentinelFile(kinds, kind, stale) ==
    LET Padded(bytes) == bytes \o Zeros(LogFileSize - Len(bytes))
        WithRecords(records) ==
            LET WithHeader(h) ==
                    Padded(evtHeaderTable([h EXCEPT !.endOffset = stale,
                                                    !.flags = EVT_HEADER_DIRTY])
                           \o records \o SentinelBytes(kind, h))
            IN WithHeader(LogFileHeader(Len(kinds), Len(records)))
    IN WithRecords(LogRecordBytes(kinds, 1))

SentinelFiles ==
    { SentinelFile(kinds, kind, stale) :
      kinds \in UNION { [1..k -> LogKinds] : k \in 0..1 },
      kind \in SentinelKinds, stale \in StaleEndOffsets }

InitSentinel ==
    /\ phase = "closed"
    /\ \E file \in SentinelFiles : io = [file |-> file, pos |-> 0]
    /\ log = NoLog
    /\ stringOffset = Indeterminate
    /\ evicted = 0
    /\ appended = << >>
    /\ reads = NoReads
    /\ last = [op |-> "none", err |-> "EVT_OK", overwrite |-> FALSE, length |-> 0,
               pre |-> NoLog, prePos |-> 0, preFile |-> << >>, preEvicted |-> 0,
               prev |-> NoCall, exited |-> FALSE]
    /\ fresh = FALSE
    /\ rejected = 0
    /\ attempts = 0
    /\ opens = 0
    /\ codec = IdleCodec
    /\ conv = NoConv
    /\ errorInfo = {}
    /\ evt2csv = NoEvt2Csv
    /\ test = NoTest

NextSentinel ==
    \/ Open
    \/ \E fill \in HeapBytes, stale \in StaleValues : ReadRecord(fill, stale)

SpecSentinel == InitSentinel /\ [][NextSentinel]_vars

(* ===== evtDeleteFirst on its own ======================================= *)

\* Lengths of the oldest record.
FirstRecordLengths == {64, 80, 120}

\* Logs before an eviction: a file of one of the ring sizes, the oldest
\* record's header at any startOffset at which a record header fits,
\* endOffset at the start of the record area or at startOffset (a full log),
\* and the length of the oldest record either cached or still to be read.
EvictLog(length, start, len, end, cached) ==
    [io |-> [file |-> WriteAt(Zeros(length), start,
                              evtRecordTable([ResetRecordHeader EXCEPT
                                                 !.length = len, !.recordNumber = 1])),
             pos |-> end],
     log |-> [header |-> [evtInitializeHeader(length) EXCEPT
                             !.startOffset = start, !.endOffset = end,
                             !.currentRecordNumber = 3, !.oldestRecordNumber = 1,
                             !.flags = EVT_HEADER_DIRTY],
              changed |-> TRUE, firstRecordRead |-> cached,
              firstRecordLen |-> IF cached THEN len ELSE 0, length |-> length],
     evicted |-> 0]

EvictLogs ==
    UNION { UNION { { [step |-> "first", s |-> EvictLog(length, start, len, end, cached)] :
                      len \in FirstRecordLengths, cached \in BOOLEAN,
                      end \in {EVT_HEADER_LENGTH, start} } :
                    start \in EVT_HEADER_LENGTH..(length - EVT_RECORD_HEADER_LENGTH) } :
            length \in RingSizes }

InitEvict == InitLog /\ codec = IdleCodec /\ test \in EvictLogs

\* evtDeleteFirst on that log.
DeleteFirst ==
    /\ test.step = "first"
    /\ test' = [step |-> "deleted", s |-> test.s, d |-> evtDeleteFirst(test.s)]
    /\ UNCHANGED << phase, io, log, stringOffset, evicted, appended, reads, last, fresh,
                    rejected, attempts, opens, codec, conv, errorInfo, evt2csv >>

NextEvict == DeleteFirst

SpecEvict == InitEvict /\ [][NextEvict]_vars

(* ===== decodeWideString on its own ===================================== *)

\* The most code units of a buffer handed to decodeWideString.
MaxWideUnits == 3

\* Buffers of code units "A" and NUL, of every length up to MaxWideUnits.
RECURSIVE WideBuffers(_)
WideBuffers(n) ==
    IF n = 0 THEN {<< >>}
    ELSE { b \o u : b \in WideBuffers(n - 1), u \in {<< 65, 0 >>, << 0, 0 >>} }

WideInputs ==
    { [step |-> "wide", in |-> b, maxLength |-> m] :
      b \in UNION { WideBuffers(n) : n \in 1..MaxWideUnits },
      m \in 0..(2 * MaxWideUnits + 1) }

InitWide == InitLog /\ codec = IdleCodec /\ test \in WideInputs

\* decodeWideString (in, maxLength, out).
DecodeWideString ==
    /\ test.step = "wide"
    /\ test' = [step |-> "scanned", in |-> test.in, maxLength |-> test.maxLength,
                result |-> decodeWideString(test.in, 0, test.maxLength)]
    /\ UNCHANGED << phase, io, log, stringOffset, evicted, appended, reads, last, fresh,
                    rejected, attempts, opens, codec, conv, errorInfo, evt2csv >>

NextWide == DecodeWideString

SpecWide == InitWide /\ [][NextWide]_vars

(* ===== Properties ====================================================== *)

\* The log was made by evtOpenCreate and used through evtAppendRecord,
\* evtReadRecord and evtRewind only.
Fresh == phase = "open" /\ fresh

\* The number of live records the header accounts for.
Live ==
    IF log.header.oldestRecordNumber = 0 THEN 0
    ELSE log.header.currentRecordNumber - log.header.oldestRecordNumber

\* The header and the EOF sentinel as the file holds them.
FileHeader == ReadHeaderTable(SubSeq(io.file, 1, EVT_HEADER_LENGTH))
FileSentinel ==
    ReadEOFTable(SubSeq(io.file, FileHeader.endOffset + 1,
                        FileHeader.endOffset + EVT_EOF_LENGTH))

\* The file is closed cleanly: its header is not DIRTY and a valid EOF
\* sentinel that agrees with the header lies at the header's endOffset.
CleanlyClosed ==
    /\ ~HasFlag(FileHeader.flags, EVT_HEADER_DIRTY)
    /\ FileHeader.endOffset >= EVT_HEADER_LENGTH
    /\ FileHeader.endOffset + EVT_EOF_LENGTH <= Len(io.file)
    /\ FileSentinel = EOFRecord(FileHeader)

\* C1: when every append to a created log succeeded and none evicted a
\* record, the reads after a rewind return the appended records, header and
\* payload, in append order, and then end-of-log.
C1_ReadBack ==
    (Fresh /\ rejected = 0 /\ evicted = 0 /\ reads.valid)
    => \A i \in 1..Len(reads.results) :
          IF i <= Len(appended)
          THEN /\ reads.results[i].err = "EVT_OK"
               /\ reads.results[i].record = appended[i]
          ELSE reads.results[i].err = "EVT_ERROR_EOF"

\* C2: encoding well-formed contents succeeds, decoding the result succeeds
\* with no error bit, and the decoded contents equal the encoded ones.
C2_RoundTrip ==
    /\ codec.step = "encoded" => codec.enc.err = "EVT_OK" /\ codec.enc.errors = {}
    /\ codec.step = "decoded" =>
          /\ codec.dec.err = "EVT_OK"
          /\ codec.dec.errors = {}
          /\ codec.dec.output = codec.contents

\* C3: an append with overwrite=false fails with LOG_FULL, setting
\* LOGFULL_WRITTEN, exactly when the record and a 40-byte EOF sentinel exceed
\* the free space; when both fit it writes the record and evicts nothing; a
\* log of size 88 rejects every such append with LOG_FULL.
C3_LogFullExactly ==
    (last.op = "AppendRecord" /\ ~last.overwrite)
    => LET fits == ~ULess(FreeSpace(last.pre), last.length + EVT_EOF_LENGTH) IN
       /\ (last.err = "EVT_ERROR_LOG_FULL") <=> ~fits
       /\ last.err = "EVT_ERROR_LOG_FULL"
             => HasFlag(log.header.flags, EVT_HEADER_LOGFULL_WRITTEN)
       /\ fits => last.err = "EVT_OK" /\ evicted = last.preEvicted
       /\ last.pre.length = EVT_HEADER_LENGTH + EVT_EOF_LENGTH
             => last.err = "EVT_ERROR_LOG_FULL"

\* C4: in every state of a created log reached by appends, reads and
\* rewinds, startOffset and endOffset lie in 48 .. maxSize - 1.
C4_OffsetsInRange ==
    Fresh => /\ EVT_HEADER_LENGTH <= log.header.startOffset
             /\ log.header.startOffset < log.header.maxSize
             /\ EVT_HEADER_LENGTH <= log.header.endOffset
             /\ log.header.endOffset < log.header.maxSize

\* C5: in every state of an open log, startOffset = endOffset exactly when
\* oldestRecordNumber = 0, that is, when the log holds no record.
C5_EmptyIffEqual ==
    phase = "open"
    => ((log.header.startOffset = log.header.endOffset)
        <=> (log.header.oldestRecordNumber = 0))

\* C6: on a log of size 120 holding one 64-byte record, after an append of
\* a 64-byte record with overwrite=false failed with LOG_FULL, the same
\* append with overwrite=true succeeds, evicts the first record and leaves
\* oldestRecordNumber equal to the new record's number.
C6_RetryEvicts ==
    (/\ last.op = "AppendRecord" /\ last.overwrite
     /\ last.prev = [op |-> "AppendRecord", err |-> "EVT_ERROR_LOG_FULL"]
     /\ last.pre.length = 120 /\ last.length = EVT_RECORD_MIN_LENGTH
     /\ last.pre.header.currentRecordNumber - last.pre.header.oldestRecordNumber = 1
     /\ last.pre.header.oldestRecordNumber # 0
     /\ last.pre.header.endOffset - last.pre.header.startOffset = EVT_RECORD_MIN_LENGTH)
    => /\ last.err = "EVT_OK"
       /\ evicted = last.preEvicted + 1
       /\ log.header.oldestRecordNumber = last.pre.header.currentRecordNumber

\* C7: a read of a live record whose bytes cross the end of the file
\* succeeds and returns the payload that was appended, byte for byte.
C7_SplitRecordReadBack ==
    LET k == Len(reads.results)
        expected == appended[Len(appended) - Live + k]
    IN (/\ Fresh /\ reads.valid /\ last.op = "ReadRecord"
        /\ k >= 1 /\ k <= Live /\ Live <= Len(appended)
        /\ \A i \in 1..(k - 1) : reads.results[i].err = "EVT_OK"
        /\ last.prePos <= log.length - EVT_RECORD_HEADER_LENGTH
        /\ last.prePos + expected.header.length > log.length)
       => /\ last.err = "EVT_OK"
          /\ reads.results[k].record.data = expected.data

\* C8: in every state of an open log the WRAP flag is set exactly when the
\* live records run to the end of the file and continue from offset 48.
C8_WrapFlag ==
    phase = "open"
    => (HasFlag(log.header.flags, EVT_HEADER_WRAP)
        <=> (/\ log.header.oldestRecordNumber # 0
             /\ log.header.endOffset <= log.header.startOffset))

C10_ReadOrder ==
    (phase = "open" /\ reads.valid)
    => \A i \in 1..Len(reads.results) :
          IF i <= Live
          THEN /\ reads.results[i].err = "EVT_OK"
               /\ reads.results[i].record.header.recordNumber
                     = log.header.oldestRecordNumber + i - 1
          ELSE reads.results[i].err = "EVT_ERROR_EOF"

\* The engine state before the last call, and what evtPrepareWrite makes of
\* it when the last call (an append that got past the LOG_FULL test, or
\* the close of a changed log) runs it.
PreState ==
    [io |-> [file |-> last.preFile, pos |-> last.prePos], log |-> last.pre,
     evicted |-> last.preEvicted]
PreLive ==
    IF last.pre.header.oldestRecordNumber = 0 THEN 0
    ELSE last.pre.header.currentRecordNumber - last.pre.header.oldestRecordNumber
Prepares ==
    \/ last.op = "AppendRecord" /\ last.err # "EVT_ERROR_LOG_FULL"
    \/ last.op = "Close" /\ last.pre.changed
LastPrepare ==
    IF last.op = "AppendRecord"
    THEN evtPrepareWrite([PreState EXCEPT !.log.header.flags =
                                      ClearFlag(@, EVT_HEADER_LOGFULL_WRITTEN)],
                         last.length)
    ELSE evtPrepareWrite(PreState, EVT_EOF_LENGTH)

\* C11: when the eviction that makes room for a write deletes as many
\* records as the log held, the log is empty afterwards: oldestRecordNumber
\* is 0, startOffset and endOffset are 48 and WRAP is clear.
C11_EvictionOfLast ==
    (Prepares /\ PreLive > 0 /\ LastPrepare.s.evicted - last.preEvicted >= PreLive)
    => /\ LastPrepare.err = "EVT_OK"
       /\ LastPrepare.s.log.header.oldestRecordNumber = 0
       /\ LastPrepare.s.log.header.startOffset = EVT_HEADER_LENGTH
       /\ LastPrepare.s.log.header.endOffset = EVT_HEADER_LENGTH
       /\ ~HasFlag(LastPrepare.s.log.header.flags, EVT_HEADER_WRAP)

\* The bytes that the records live before the last call occupy, and the
\* bytes of the record area that no live record occupies.
RECURSIVE SumLengths(_)
SumLengths(records) ==
    IF records = << >> THEN 0
    ELSE Head(records).header.length + SumLengths(Tail(records))
PreAppended == IF last.err = "EVT_OK" THEN SubSeq(appended, 1, Len(appended) - 1)
               ELSE appended
PreLiveBytes ==
    SumLengths(SubSeq(PreAppended, Len(PreAppended) - PreLive + 1, Len(PreAppended)))
PreFree == (last.pre.length - EVT_HEADER_LENGTH) - PreLiveBytes

\* C12: after a successful append either the record fitted into the space
\* that was free before the call and nothing was evicted, or records were
\* evicted and oldestRecordNumber is greater than before the call, or is
\* the new record's number when the eviction emptied the log.
C12_FitsOrEvicts ==
    (Fresh /\ last.op = "AppendRecord" /\ last.err = "EVT_OK"
     /\ PreLive <= Len(PreAppended))
    => \/ /\ evicted = last.preEvicted
          /\ last.length <= PreFree
       \/ /\ evicted > last.preEvicted
          /\ \/ log.header.oldestRecordNumber > last.pre.header.oldestRecordNumber
             \/ /\ evicted - last.preEvicted >= PreLive
                /\ log.header.oldestRecordNumber
                      = last.pre.header.currentRecordNumber

\* C13: evtClose straight after an evtOpenCreate with a size of at least 88
\* succeeds and leaves an empty log whose EOF sentinel lies at offset 48.
C13_CreateThenClose ==
    (/\ last.op = "Close"
     /\ last.prev = [op |-> "OpenCreate", err |-> "EVT_OK"]
     /\ last.pre.length >= EVT_HEADER_LENGTH + EVT_EOF_LENGTH)
    => /\ last.err = "EVT_OK"
       /\ CleanlyClosed
       /\ FileHeader.oldestRecordNumber = 0
       /\ FileHeader.startOffset = EVT_HEADER_LENGTH
       /\ FileHeader.endOffset = EVT_HEADER_LENGTH

\* C14: when the program ends after appends to a created log have completed
\* without evicting a record, and before evtClose, the file is DIRTY, an
\* evtOpen of it succeeds, and the reads return the appended records.
C14_RecoverAfterExit ==
    /\ (last.op = "Exit" /\ opens = 0)
          => HasFlag(FileHeader.flags, EVT_HEADER_DIRTY)
    /\ (last.op = "Open" /\ last.exited /\ opens = 1) => last.err = "EVT_OK"
    /\ (phase = "open" /\ last.exited /\ opens = 1 /\ evicted = 0 /\ reads.valid)
          => \A i \in 1..Len(reads.results) :
                i <= Len(appended)
                => /\ reads.results[i].err = "EVT_OK"
                   /\ reads.results[i].record = appended[i]

\* C15: a csv2evt run that may evict, on a log that can hold a record and
\* the sentinel, appends one record for each complete row, in the order of
\* the rows, and returns success after the last row.
C15_RowsAppended ==
    (/\ conv.step = "done" /\ ~conv.noOverwrite
     /\ log.length >= EVT_HEADER_LENGTH + EVT_RECORD_MIN_LENGTH + 20 + EVT_EOF_LENGTH)
    => /\ conv.ret = "TRUE"
       /\ Len(appended) = conv.rows
       /\ \A i \in 1..Len(appended) : appended[i].header.recordNumber = i

\* C20: in a csv2evt run, an evtAppendRecord call made without eviction that
\* returns EVT_ERROR_LOG_FULL ends the run with an error when overwriting is
\* forbidden (-w); otherwise it is followed by one more call for the same
\* record with overwrite set, and every later call has overwrite set.
C20_LogFullHandling ==
    \A i \in 1..Len(conv.calls) :
       (conv.calls[i].err = "EVT_ERROR_LOG_FULL" /\ ~conv.calls[i].overwrite)
       => IF conv.noOverwrite
          THEN /\ i = Len(conv.calls)
               /\ conv.step = "done" => conv.ret # "TRUE"
          ELSE /\ i < Len(conv.calls)
               /\ conv.calls[i + 1].recordNumber = conv.calls[i].recordNumber
               /\ \A j \in (i + 1)..Len(conv.calls) : conv.calls[j].overwrite
               /\ \A j \in (i + 2)..Len(conv.calls) :
                     conv.calls[j].recordNumber # conv.calls[i].recordNumber
               /\ conv.overwrite

\* C19: while a log is open for writing, created by evtOpenCreate or opened
\* by evtOpen and then appended to, EVT_HEADER_DIRTY is set in the header
\* of the log, in the structure and in the file.
C19_DirtyWhileWriting ==
    (/\ phase = "open"
     /\ \/ fresh
        \/ last.op = "AppendRecord" /\ last.err = "EVT_OK")
    => /\ HasFlag(log.header.flags, EVT_HEADER_DIRTY)
       /\ HasFlag(FileHeader.flags, EVT_HEADER_DIRTY)

\* The EvtHeaderError bits of the checks that the header h fails.
FailedChecks(h) ==
    (IF h.headerSize = 48 /\ h.endHeaderSize = 48
     THEN {} ELSE {"EVT_HEADER_ERROR_WRONG_LENGTH"})
    \cup (IF h.signature = EVT_SIGNATURE
          THEN {} ELSE {"EVT_HEADER_ERROR_WRONG_SIGNATURE"})
    \cup (IF h.majorVersion = 1 /\ h.minorVersion = 1
          THEN {} ELSE {"EVT_HEADER_ERROR_WRONG_VERSION"})

\* The header on the medium before the last call.
PreHeader == ReadHeaderTable(SubSeq(last.preFile, 1, EVT_HEADER_LENGTH))

\* C18: evtOpen on a header that fails a check returns an error, leaves no
\* log object, and reports exactly the bits of the failed checks; an
\* evtOpenCreate with a valid size on the same FileIO then succeeds.
C18_OpenHeaderErrors ==
    /\ (last.op = "Open" /\ FailedChecks(PreHeader) # {})
       => /\ last.err # "EVT_OK"
          /\ phase # "open" /\ log = NoLog
          /\ errorInfo = FailedChecks(PreHeader)
    /\ (last.op = "OpenCreate" /\ last.prev.op = "Open" /\ last.prev.err # "EVT_OK"
        /\ last.length >= EVT_HEADER_LENGTH)
       => /\ last.err = "EVT_OK"
          /\ phase = "open"
          /\ FileHeader = log.header
          /\ FailedChecks(FileHeader) = {}

\* C18 witness: a log created on a medium after evtOpen refused its header
\* with all three bits reported.
C18_Witness ==
    /\ last.op = "OpenCreate" /\ last.prev.op = "Open" /\ last.prev.err = "EVT_ERROR"
    /\ last.err = "EVT_OK" /\ phase = "open"
    /\ errorInfo = {"EVT_HEADER_ERROR_WRONG_LENGTH", "EVT_HEADER_ERROR_WRONG_SIGNATURE",
                    "EVT_HEADER_ERROR_WRONG_VERSION"}

\* The eleven fields of a row of evt2csv in their order.
CsvFieldOrder ==
    << "recordNumber", "timeGenerated", "timeWritten", "eventID", "eventType",
       "eventCategory", "sourceName", "computerName", "userSid", "strings", "data" >>

\* C16: for every record that evt2csv has decoded, processRecord has written
\* exactly one row, and the row holds the eleven fields in their order,
\* also when the record has no user SID.
C16_OneRowOfElevenFields ==
    \A i \in 1..Len(evt2csv.records) :
       evt2csv.records[i].decoded => evt2csv.records[i].rows = << CsvFieldOrder >>

\* C17: when a record of the log has failed to decode and the run has
\* ended in processFile, every record of the log has been read, and every
\* record after the failed one that decodes has its row.
C17_ContinuesAfterDecodeFailure ==
    (/\ evt2csv.step = "done" /\ evt2csv.ret \in {"TRUE", "FALSE"}
     /\ \E i \in 1..Len(evt2csv.records) : ~evt2csv.records[i].decoded)
    => /\ Len(evt2csv.records) = evt2csv.total
       /\ Len(evt2csv.wrt.rows) >=
             Cardinality({i \in 1..Len(evt2csv.records) : evt2csv.records[i].decoded})

C22_StringsRoundTrip ==
    test.step = "split"
    => /\ test.numStrings = Len(test.strings)
       /\ test.split = test.strings

\* The round trip of every list of one or more strings.
C22_NonEmptyListsRoundTrip ==
    (test.step = "split" /\ Len(test.strings) > 0)
    => /\ test.numStrings = Len(test.strings)
       /\ test.split = test.strings

\* What the written fields[] are read back as if every field comes back as
\* a field and every NULL as an end-of-record.
CsvWritten(fields) ==
    [k \in 1..Len(fields) |->
        IF fields[k] = NULL THEN [status |-> "CSV_EOR", field |-> << >>]
        ELSE [status |-> "CSV_FIELD", field |-> fields[k]]]

\* C23: the records written with csvWrite are read back by csvRead as the
\* same fields in the same order, end-of-record after the last field of
\* each record and end-of-file after the last record; and every read
\* returns.
C23_CsvRoundTrip ==
    /\ test.step # "abort"
    /\ test.step = "eof"
       => test.read = CsvWritten(test.fields) \o << [status |-> "CSV_EOF", field |-> << >>] >>

\* What the reader has returned is a prefix of: what was written, one empty
\* field, end-of-record, end-of-file.
C23_ReadsWrittenThenEmptyRecord ==
    test.step \in {"read", "eof"}
    => LET all == CsvWritten(test.fields) \o
                  << [status |-> "CSV_FIELD", field |-> << >>],
                     [status |-> "CSV_EOR", field |-> << >>],
                     [status |-> "CSV_EOF", field |-> << >>] >>
       IN /\ Len(test.read) <= Len(all)
          /\ \A k \in 1..Len(test.read) : test.read[k] = all[k]
          /\ test.step = "eof" => test.read = all

\* C24: a byte string encoded with base64_encode_block and
\* base64_encode_blockend and decoded with base64_decode_block comes back
\* with its length and its bytes.
C24_Base64RoundTrip ==
    test.step = "decoded"
    => /\ test.length = Len(test.string)
       /\ test.debuff = test.string

\* A string whose length is no multiple of three, with bytes above 127,
\* has been encoded with padding and decoded.
C24_Witness ==
    /\ test.step = "decoded"
    /\ test.string = << 255, 128, 0, 127 >>
    /\ test.enbuff = << 47, 52, 65, 65, 102, 119, 61, 61, 0 >>
    /\ test.length = 4

\* C25: a canonical SID text converted to binary and back is the same
\* text, and a well-formed binary SID converted to text and back is the
\* same block.
C25_SidRoundTrip ==
    /\ (test.kind = "canonical" /\ test.step \notin {"text", "text.binary"})
       => test.step = "text.back" /\ test.back = test.text
    /\ (test.kind = "wellformed" /\ test.step \notin {"binary", "binary.text"})
       => test.step = "binary.back" /\ test.back = test.binary

\* S-255-281474976710655-4294967295-2147483648 has gone to binary and back.
C25_Witness ==
    /\ test.kind = "canonical"
    /\ test.step = "text.back"
    /\ test.text = << 83, 45, 50, 53, 53, 45,
                      50, 56, 49, 52, 55, 52, 57, 55, 54, 55, 49, 48, 54, 53, 53, 45,
                      52, 50, 57, 52, 57, 54, 55, 50, 57, 53, 45,
                      50, 49, 52, 55, 52, 56, 51, 54, 52, 56 >>
    /\ test.binary = << 255, 2, 255, 255, 255, 255, 255, 255,
                        255, 255, 255, 255, 0, 0, 0, 128 >>

\* C26: sidToBinary fails on a text without the S- prefix, with a revision
\* outside 0..255, with an authority outside 0..2^48-1 or with a
\* sub-authority outside 0..2^32-1; sidToString fails on a block shorter
\* than 2 + 6 + 4 * count bytes.
C26_SidFailures ==
    /\ (test.kind \in {"prefix", "revision", "authority", "subauthority"}
        /\ test.step # "text")
       => test.step = "text.NULL"
    /\ (test.kind = "short" /\ test.step # "binary") => test.step = "binary.NULL"

\* The checks that the conversions do make.
C26_PrefixRevisionLengthChecked ==
    /\ (test.kind \in {"prefix", "revision"} /\ test.step # "text")
       => test.step = "text.NULL"
    /\ (test.kind = "short" /\ test.step # "binary") => test.step = "binary.NULL"

\* The offset at which an append with this alignment has to paste its data.
AlignedOffset(pre, align) ==
    IF align > 1 THEN ((pre.used + align - 1) \div align) * align ELSE pre.used

\* What C27 says of the last bufferAppend: the offset returned, the zero
\* padding below it, the bytes copied, used, and the bytes that were there.
AppendedAsSpecified ==
    LET c == test.last
        offset == AlignedOffset(c.pre, c.align)
    IN /\ test.step = "buffer"
       /\ c.offset = offset
       /\ test.buf.used = offset + c.length
       /\ Len(test.buf.data) = test.buf.used
       /\ \A k \in 1..test.buf.used :
             test.buf.data[k] = IF k <= c.pre.used THEN c.pre.data[k]
                                ELSE IF k <= offset THEN 0
                                ELSE 120

\* C27: after any appends and bufferEmpty calls, bufferAppend with an
\* alignment above 1 pads with zero bytes up to the next multiple of the
\* alignment, copies the bytes, returns the offset of the copied bytes and
\* leaves used = offset + length; with alignment 0 or 1 it does not pad.
C27_BufferAppend ==
    test.last.op = "bufferAppend" => AppendedAsSpecified

\* The same for the appends whose padding stays inside the block.
C27_BufferAppendInsideBlock ==
    (test.last.op = "bufferAppend" /\ ~test.last.overrun) => AppendedAsSpecified

\* C28: evtEncodeRecordData stores timeGenerated and timeWritten as 32-bit
\* UNIX seconds, a value below zero as 0 and a value above 2^32 - 1 as
\* 2^32 - 1, and reports no error for them.
C28_TimesClamped ==
    codec.step \in {"encoded", "decoded"}
    => /\ codec.enc.err = "EVT_OK"
       /\ codec.enc.errors = {}
       /\ codec.enc.output.header.timeGenerated
          = TimeToUint32Clamped(codec.contents.timeGenerated)
       /\ codec.enc.output.header.timeWritten
          = TimeToUint32Clamped(codec.contents.timeWritten)

\* What is stored is the low 32 bits of each time, with no error.
C28_TimesLow32Bits ==
    codec.step \in {"encoded", "decoded"}
    => /\ codec.enc.err = "EVT_OK"
       /\ codec.enc.errors = {}
       /\ DwordLE(codec.enc.output.header.timeGenerated)
          = << codec.contents.timeGenerated[8], codec.contents.timeGenerated[7],
               codec.contents.timeGenerated[6], codec.contents.timeGenerated[5] >>
       /\ DwordLE(codec.enc.output.header.timeWritten)
          = << codec.contents.timeWritten[8], codec.contents.timeWritten[7],
               codec.contents.timeWritten[6], codec.contents.timeWritten[5] >>

\* C29: every AppendRecord with overwrite set and every Close returns: the
\* eviction loop ends, with room for the write or with an error when no
\* record is left to evict.
C29_WritesTerminate ==
    (last.op \in {"AppendRecord", "Close"} /\ (last.op = "AppendRecord" => last.overwrite))
    => last.err # "HANG"

\* The last call ran evtPrepareWrite with endOffset in the last 56 bytes of
\* the file and records left after the eviction: the write wraps.
WrapsAtEnd ==
    /\ Prepares
    /\ LastPrepare.err = "EVT_OK"
    /\ last.pre.header.endOffset >= last.pre.length - EVT_RECORD_HEADER_LENGTH
    /\ LastPrepare.s.log.header.oldestRecordNumber # 0

\* C30: when a write wraps because endOffset >= length - 56, the filler
\* 27 00 00 00 is written to exactly the bytes from the old endOffset to the
\* end of the file, its first byte at endOffset, and no byte of a record
\* that is still live is modified.
C30_FillerOnWrap ==
    WrapsAtEnd
    => LET old == last.pre.header.endOffset
           file == LastPrepare.s.io.file
       IN /\ Len(file) = Len(last.preFile)
          /\ \A k \in 1..Len(file) :
                file[k] = IF k > old
                          THEN (IF (k - old - 1) % 4 = 0 THEN 39 ELSE 0)
                          ELSE last.preFile[k]


\* The record appended before the last call: its length and, from the
\* offset at which it ends, the offset at which it starts (a record whose
\* payload wraps ends at 48 plus the part stored past the header).
PrevLength == PreAppended[Len(PreAppended)].header.length
PrevStart ==
    IF last.pre.header.endOffset - PrevLength >= EVT_HEADER_LENGTH
    THEN last.pre.header.endOffset - PrevLength
    ELSE last.pre.length - PrevLength + (last.pre.header.endOffset - EVT_HEADER_LENGTH)

\* The last call appended a record to a log that held records before the
\* call and after its eviction, so the record follows the one before it.
AppendsBehind ==
    /\ Fresh /\ last.op = "AppendRecord" /\ last.err = "EVT_OK"
    /\ PreLive > 0 /\ PreAppended # << >>
    /\ LastPrepare.s.log.header.oldestRecordNumber # 0

\* C31: for a record that ends at any offset, the offset at which
\* evtAppendRecord stores the record that follows it, the offset from which
\* evtReadRecord reads after it and the offset to which evtDeleteFirst
\* advances startOffset past it are the same.
C31_SameNextOffset ==
    AppendsBehind
    => /\ LastPrepare.s.io.pos = ReadOffset(last.pre.length, last.pre.header.endOffset)
       /\ LastPrepare.s.io.pos = AdvanceStart(last.pre.length, PrevStart, PrevLength)


\* The record header that the file holds at startOffset.
FirstHeader ==
    ReadRecordTable(SubSeq(io.file, log.header.startOffset + 1,
                           log.header.startOffset + EVT_RECORD_HEADER_LENGTH))

\* C32: between the operations on a created log that holds records,
\* oldestRecordNumber is the record number in the record header at
\* startOffset, and when firstRecordRead is set firstRecordLen is the length
\* in that header.
C32_FirstRecordCached ==
    (Fresh /\ last.err \in {"EVT_OK", "EVT_ERROR_EOF", "EVT_ERROR_LOG_FULL"}
     /\ log.header.oldestRecordNumber # 0)
    => /\ log.header.startOffset + EVT_RECORD_HEADER_LENGTH <= Len(io.file)
       /\ FirstHeader.recordNumber = log.header.oldestRecordNumber
       /\ log.firstRecordRead => log.firstRecordLen = FirstHeader.length


\* C33: an append that returns LOG_FULL writes no byte of the file, evicts
\* no record and leaves the stream position and the log object as they
\* were, except that LOGFULL_WRITTEN is set.
C33_LogFullChangesNothing ==
    (last.op = "AppendRecord" /\ last.err = "EVT_ERROR_LOG_FULL")
    => /\ io.file = last.preFile
       /\ io.pos = last.prePos
       /\ evicted = last.preEvicted
       /\ log = [last.pre EXCEPT !.header.flags =
                                     SetFlag(@, EVT_HEADER_LOGFULL_WRITTEN)]

\* An append without overwrite was rejected by a log that holds records and
\* did not have LOGFULL_WRITTEN set.
C33_Witness ==
    /\ last.op = "AppendRecord" /\ last.err = "EVT_ERROR_LOG_FULL"
    /\ ~last.overwrite
    /\ last.pre.header.oldestRecordNumber # 0
    /\ ~HasFlag(last.pre.header.flags, EVT_HEADER_LOGFULL_WRITTEN)
    /\ HasFlag(log.header.flags, EVT_HEADER_LOGFULL_WRITTEN)


\* The encoder has returned EVT_OK; its output record.
Encoded == codec.step \in {"encoded", "decoded"} /\ codec.enc.err = "EVT_OK"
EncodedRecord == codec.enc.output

\* C34: a record that evtEncodeRecordData produced has header.length = 56 +
\* dataLength, a multiple of 4 that is at least 64, and its last four payload
\* bytes are header.length in little-endian order, as are the first four
\* bytes of the record header.
C34_EncodedLength ==
    Encoded
    => /\ EncodedRecord.header.length
             = EVT_RECORD_HEADER_LENGTH + EncodedRecord.dataLength
       /\ Len(EncodedRecord.data) = EncodedRecord.dataLength
       /\ EncodedRecord.header.length % 4 = 0
       /\ EncodedRecord.header.length >= EVT_RECORD_MIN_LENGTH
       /\ SubSeq(EncodedRecord.data, EncodedRecord.dataLength - 3,
                 EncodedRecord.dataLength) = DwordLE(EncodedRecord.header.length)
       /\ SubSeq(evtRecordTable(EncodedRecord.header), 1, 4)
             = DwordLE(EncodedRecord.header.length)

\* A record was encoded whose opaque data end off a DWORD boundary, so the
\* trailing length is stored behind padding.
C34_Witness ==
    /\ Encoded
    /\ (EncodedRecord.header.dataOffset + EncodedRecord.header.dataLength) % 4 # 0
    /\ EncodedRecord.header.length
          > EncodedRecord.header.dataOffset + EncodedRecord.header.dataLength + 4


\* What memset (output, 0, sizeof *output) leaves.
ZeroedContents ==
    [timeGenerated |-> TimeT(0), timeWritten |-> TimeT(0), numStrings |-> 0,
     strings |-> << >>, userSid |-> NULL, sourceName |-> NULL,
     computerName |-> NULL, dataLength |-> 0, data |-> NULL]

\* C35: evtDecodeRecordData returns an error exactly when an error bit is
\* set; a payload below 8 bytes gives exactly EVT_DECODE_INVALID and a
\* zeroed output; otherwise every field of the output has been stored, a
\* field that failed is NULL or empty and a field that did not fail is
\* populated.
C35_DecodeErrors ==
    test.step = "decoded"
    => LET d == test.dec
           hdr == test.input.header
           Failed(bits) == d.errors \cap bits # {}
       IN /\ (d.err # "EVT_OK") <=> (d.errors # {})
          /\ test.input.dataLength < 8
                => /\ d.errors = {"EVT_DECODE_INVALID"}
                   /\ d.output = ZeroedContents
                   /\ d.untouched = {}
          /\ test.input.dataLength >= 8
                => /\ "EVT_DECODE_INVALID" \notin d.errors
                   /\ d.untouched = {}
                   /\ (d.output.sourceName = NULL)
                         <=> Failed({"EVT_DECODE_SOURCE_NAME_FAILED"})
                   /\ Failed({"EVT_DECODE_COMPUTER_NAME_FAILED"})
                         => d.output.computerName = NULL
                   /\ ~Failed({"EVT_DECODE_SOURCE_NAME_FAILED",
                               "EVT_DECODE_COMPUTER_NAME_FAILED"})
                         => d.output.computerName # NULL
                   /\ IF Failed({"EVT_DECODE_STRINGS_FAILED"})
                      THEN d.output.numStrings = 0 /\ d.output.strings = << >>
                      ELSE d.output.numStrings = hdr.numStrings
                           /\ Len(d.output.strings) = hdr.numStrings
                   /\ Failed({"EVT_DECODE_SID_OVERFLOW", "EVT_DECODE_SID_FAILED"})
                         => d.output.userSid = NULL
                   /\ (~Failed({"EVT_DECODE_SID_OVERFLOW", "EVT_DECODE_SID_FAILED"})
                       /\ hdr.userSidLength # 0)
                         => d.output.userSid # NULL
                   /\ IF Failed({"EVT_DECODE_DATA_OVERFLOW"})
                      THEN d.output.data = NULL /\ d.output.dataLength = 0
                      ELSE d.output.data # NULL
                           /\ d.output.dataLength = hdr.dataLength


\* C36: for a payload of 8 bytes or more and any record header,
\* evtDecodeRecordData reads no byte outside the payload, and a section
\* (strings, SID, data) that the header places outside the payload is
\* reported with its failure or overflow bit.
C36_DecodeInBounds ==
    (test.step = "decoded" /\ test.input.dataLength >= 8)
    => LET d == test.dec
           hdr == test.input.header
           \* the section of n bytes at offset off of the record lies in the payload
           Inside(off, n) ==
               /\ off >= EVT_RECORD_HEADER_LENGTH
               /\ off + n <= EVT_RECORD_HEADER_LENGTH + test.input.dataLength
       IN /\ ~d.oob
          /\ (hdr.numStrings # 0 /\ ~Inside(hdr.stringOffset, 2))
                => "EVT_DECODE_STRINGS_FAILED" \in d.errors
          /\ (hdr.userSidLength # 0 /\ ~Inside(hdr.userSidOffset, hdr.userSidLength))
                => d.errors \cap {"EVT_DECODE_SID_OVERFLOW", "EVT_DECODE_SID_FAILED"} # {}
          /\ (hdr.dataLength # 0 /\ ~Inside(hdr.dataOffset, hdr.dataLength))
                => "EVT_DECODE_DATA_OVERFLOW" \in d.errors


\* The last call was an evtReadRecord that, at an offset other than
\* endOffset, found the length DWORD 40 with 36 more bytes behind it.
ReadAt == ReadOffset(last.pre.length, last.prePos)
ReadsSentinel ==
    /\ last.op = "ReadRecord"
    /\ ReadAt # last.pre.header.endOffset
    /\ ReadAt + EVT_EOF_LENGTH <= Len(last.preFile)
    /\ ReadDwordLE(last.preFile, ReadAt + 1) = EVT_EOF_LENGTH

\* The 40 bytes at that offset are an EOF record: the four magic DWORDs and
\* the closing size 40.
SentinelInFile ==
    LET eof == ReadEOFTable(SubSeq(last.preFile, ReadAt + 1, ReadAt + EVT_EOF_LENGTH))
    IN /\ eof.one = 286331153 /\ eof.two = 572662306
       /\ eof.three = 858993459 /\ eof.four = 1145324612
       /\ eof.recordSizeEnd = EVT_EOF_LENGTH

\* C37: an evtReadRecord that meets the length 40 away from endOffset
\* returns end-of-log when the bytes in the file are an EOF record and fails
\* otherwise, whatever was read before.
C37_SentinelByFileBytes ==
    ReadsSentinel
    => last.err = (IF SentinelInFile THEN "EVT_ERROR_EOF" ELSE "EVT_ERROR")


\* The length of the oldest record as evtDeleteFirst takes it: the cached
\* one, else the one in the record header at startOffset.
EvictedLength ==
    IF test.s.log.firstRecordRead THEN test.s.log.firstRecordLen
    ELSE ReadRecordTable(SubSeq(test.s.io.file, test.s.log.header.startOffset + 1,
                                test.s.log.header.startOffset
                                    + EVT_RECORD_HEADER_LENGTH)).length
EndSpace == test.s.log.length - test.s.log.header.startOffset - EvictedLength

\* C38: evicting the oldest record sets startOffset to 48 + |endSpace| when
\* endSpace < 0, to 48 when 0 <= endSpace < 56, and to startOffset +
\* firstRecordLen otherwise, where endSpace = length - startOffset -
\* firstRecordLen.
C38_EvictionAdvance ==
    test.step = "deleted"
    => /\ test.d.err \in {"EVT_OK", "EVT_ERROR_IO"}
       /\ test.d.s.evicted = 1
       /\ test.d.s.log.header.startOffset =
             IF EndSpace < 0 THEN EVT_HEADER_LENGTH + (0 - EndSpace)
             ELSE IF EndSpace < EVT_RECORD_HEADER_LENGTH THEN EVT_HEADER_LENGTH
             ELSE test.s.log.header.startOffset + EvictedLength

\* The oldest record, its length read from the file, was wrapped and has
\* been evicted.
C38_Witness ==
    /\ test.step = "deleted"
    /\ ~test.s.log.firstRecordRead
    /\ EndSpace < 0
    /\ test.d.err = "EVT_OK"
    /\ test.d.s.log.header.startOffset = EVT_HEADER_LENGTH + (0 - EndSpace)


\* C39: decodeWideString (in, maxLength, out) reads no code unit that
\* reaches to or beyond byte offset maxLength of the input, and a return
\* value that is not 0 is at most maxLength.
C39_WideStringWithinLimit ==
    (test.step = "scanned" /\ ~test.result.oob)
    => /\ test.result.examined <= test.maxLength
       /\ test.result.length # 0 => test.result.length <= test.maxLength

====
